---- MODULE Spec2Model ----
(***************************************************************************)
(* Task / subtask orchestration of the MEDACAP project manager backend:    *)
(* TaskService (createTask, updateTask, deleteTask, createSubTask,         *)
(* updateSubTaskStatus, canModifyTask, canChangePhase), the Task entity's  *)
(* validating setters, the RACI repository, the knex transaction wrapper   *)
(* and the relational store (primary keys, foreign keys with ON DELETE     *)
(* CASCADE, the fn_task_progress trigger).                                 *)
(*                                                                         *)
(* Modelling conventions                                                   *)
(*  - Every `await` of the service is a step of its own, so calls          *)
(*    interleave exactly where the event loop lets them.                   *)
(*  - The store runs at PostgreSQL's default READ COMMITTED level: the      *)
(*    statements of an open transaction are kept in the call's `ops` and   *)
(*    are visible to that call only (View); Commit applies them to `db`.   *)
(*    A statement that needs a row lock held by another open transaction   *)
(*    waits (its action is disabled).                                      *)
(*  - Identifiers are opaque values; the logical column "completed" of a   *)
(*    subtask is the column the progress trigger reads.                    *)
(*  - progress is numeric(5,2): it is kept in hundredths of a percent.     *)
(***************************************************************************)
EXTENDS Integers, Sequences, FiniteSets, TLC

VARIABLES db, calls, events, nextTask, nextSub, now, requests

vars == <<db, calls, events, nextTask, nextSub, now, requests>>

(* ------------------------------ bounds -------------------------------- *)
MaxTasks == 1
MaxTwinTasks == 2
MaxSubTasks == 2
MaxCalls == 2
MaxClock == 1
MaxRequests == 4

TaskIds == 1..MaxTasks
SubIds == 1..MaxSubTasks
Calls == 1..MaxCalls

(* --------------------------- value domains ---------------------------- *)
NULL == "null"
NoDate == 0
(* A Date argument or property that is undefined rather than null *)
Undefined == 0 - 1
Users == {"u1", "u2"}
ElevatedRoles == {"CP", "RF"}
Letters == <<"R", "A", "C", "I">>
validCodes == {"M", "E", "D", "A", "C", "A2", "P"}
ProfileCatalog == {"TEC", "MAN"}

(* The number NaN (also the time value of an Invalid Date): a value for     *)
(* which every comparison of the language is false. The other numbers of    *)
(* the model are integers.                                                  *)
NaN == 0 - 999999
Less(a, b) == a # NaN /\ b # NaN /\ a < b
Greater(a, b) == a # NaN /\ b # NaN /\ a > b
AtLeast(a, b) == a # NaN /\ b # NaN /\ a >= b
AtMost(a, b) == a # NaN /\ b # NaN /\ a <= b
NumberIsInteger(v) == v # NaN

(* PhaseCode.isValid / Priority.isValid / UUID.isValid *)
PhaseCodeIsValid(v) == v \in validCodes
PriorityIsValid(v) == AtLeast(v, 1) /\ AtMost(v, 5) /\ NumberIsInteger(v)
UUIDIsValid(v) == v \in Users

(* title.trim().length === 0 : the empty and the blank title *)
TitleIsBlank(t) == t \in {"", " "}

(* ------------------------------ the store ----------------------------- *)
EmptyDb ==
  [task |-> <<>>, subtask |-> <<>>, task_raci |-> {}, subtask_raci |-> {},
   task_profile |-> {}]

TaskExists(d, t) == t \in DOMAIN d.task
SubTaskExists(d, s) == s \in DOMAIN d.subtask

SubTasksOf(d, t) == {s \in DOMAIN d.subtask : d.subtask[s].task_id = t}
CompletedOf(d, t) == {s \in SubTasksOf(d, t) : d.subtask[s].completed}

TaskRaciOf(d, t) == {r \in d.task_raci : r.task_id = t}
SubRaciOfMutant(d, s) ==
  IF s \in DOMAIN d.subtask
  THEN {[subtask_id |-> s, user_uuid |-> r.user_uuid, letter |-> r.letter] :
          r \in {x \in d.task_raci : x.task_id = d.subtask[s].task_id}}
  ELSE {}
SubRaciOf(d, s) == {r \in d.subtask_raci : r.subtask_id = s}
ProfilesOf(d, t) == {r.profile_code : r \in {x \in d.task_profile : x.task_id = t}}

(* PRIMARY KEY (task_id, user_uuid) of task_raci: the key is already taken *)
TaskRaciKeyExistsMutant(d, t, u) == FALSE
TaskRaciKeyExists(d, t, u) == \E r \in d.task_raci : r.task_id = t /\ r.user_uuid = u

(* The (user, letter) pairs of a RACI row set, whatever entity owns it *)
Pairs(rows) == {<<r.user_uuid, r.letter>> : r \in rows}

(* ROUND(x, 2) of the percentage 100 * done / total, in hundredths *)
Round2(done, total) == (20000 * done + total) \div (2 * total)

(* fn_task_progress: ROUND(COALESCE(AVG(CASE WHEN done THEN 100 ELSE 0 END),0),2) *)
fn_task_progress(d, t) ==
  IF ~TaskExists(d, t) THEN d
  ELSE LET total == Cardinality(SubTasksOf(d, t))
           done == Cardinality(CompletedOf(d, t))
           p == IF total = 0 THEN 0 ELSE Round2(done, total)
       IN [d EXCEPT !.task[t].progress = p]

(* SubTaskKnexRepository.calculateTaskProgress:                            *)
(* Math.round((completed / total) * 100), 0 without subtasks; a whole      *)
(* percentage, given here in hundredths like the stored column             *)
MathRound(num, den) == (2 * num + den) \div (2 * den)
calculateTaskProgress(d, t) ==
  LET total == Cardinality(SubTasksOf(d, t))
      completed == Cardinality(CompletedOf(d, t))
  IN IF total = 0 THEN 0 ELSE 100 * MathRound(100 * completed, total)

(* ON DELETE CASCADE from task to subtask, task_raci, task_profile and from *)
(* subtask to subtask_raci                                                 *)
DeleteCascadeMutant(d, t) ==
  [d EXCEPT !.task = [x \in DOMAIN d.task \ {t} |-> d.task[x]],
            !.subtask = [s \in DOMAIN d.subtask \ SubTasksOf(d, t) |-> d.subtask[s]],
            !.task_raci = {r \in d.task_raci : r.task_id # t},
            !.task_profile = {r \in d.task_profile : r.task_id # t}]
DeleteCascade(d, t) ==
  LET gone == SubTasksOf(d, t)
  IN [task |-> [x \in DOMAIN d.task \ {t} |-> d.task[x]],
      subtask |-> [s \in DOMAIN d.subtask \ gone |-> d.subtask[s]],
      task_raci |-> {r \in d.task_raci : r.task_id # t},
      subtask_raci |-> {r \in d.subtask_raci : r.subtask_id \notin gone},
      task_profile |-> {r \in d.task_profile : r.task_id # t}]

(* ------------------- transactions (db.transaction) -------------------- *)
(* One statement issued on an open transaction handle trx(...)            *)
ApplyOp(d, op) ==
  CASE op.k = "ins_task" ->
         [d EXCEPT !.task = (op.id :> op.row) @@ d.task]
    [] op.k = "upd_task" ->
         IF TaskExists(d, op.id)
         THEN [d EXCEPT !.task[op.id] =
                 [f \in DOMAIN d.task[op.id] |->
                    IF f \in DOMAIN op.row THEN op.row[f] ELSE d.task[op.id][f]]]
         ELSE d
    [] op.k = "ins_task_raci" -> [d EXCEPT !.task_raci = @ \cup op.rows]
    [] op.k = "del_task_raci" -> [d EXCEPT !.task_raci = @ \ op.rows]
    [] op.k = "ins_task_profile" -> [d EXCEPT !.task_profile = @ \cup op.rows]
    [] op.k = "del_task_profile" -> [d EXCEPT !.task_profile = @ \ op.rows]
    [] op.k = "ins_subtask" ->
         fn_task_progress(
           [d EXCEPT !.subtask = (op.id :> op.row) @@ d.subtask], op.row.task_id)
    [] op.k = "ins_subtask_raci" -> [d EXCEPT !.subtask_raci = @ \cup op.rows]
    [] op.k = "del_subtask_raci" -> [d EXCEPT !.subtask_raci = @ \ op.rows]
    [] op.k = "upd_subtask" ->
         IF SubTaskExists(d, op.id)
         THEN fn_task_progress(
                [d EXCEPT !.subtask[op.id].title = op.title,
                          !.subtask[op.id].completed = op.completed],
                d.subtask[op.id].task_id)
         ELSE d
    [] OTHER -> d

RECURSIVE ApplyAll(_, _)
ApplyAll(ops, d) ==
  IF ops = <<>> THEN d ELSE ApplyAll(Tail(ops), ApplyOp(d, Head(ops)))

(* What the statements of call c's own transaction read *)
View(c) == ApplyAll(calls[c].ops, db)

(* Row locks held by the open transaction whose statements are ops *)
TasksWritten(ops) ==
  {ops[i].id : i \in {j \in DOMAIN ops : ops[j].k \in {"ins_task", "upd_task"}}}
    \cup {ops[i].row.task_id : i \in {j \in DOMAIN ops : ops[j].k = "ins_subtask"}}
TasksReferenced(ops) ==
  UNION {{r.task_id : r \in ops[i].rows} :
           i \in {j \in DOMAIN ops :
                    ops[j].k \in {"ins_task_raci", "del_task_raci",
                                  "ins_task_profile", "del_task_profile"}}}
SubTasksReferenced(ops) ==
  UNION {{r.subtask_id : r \in ops[i].rows} :
           i \in {j \in DOMAIN ops : ops[j].k = "ins_subtask_raci"}}
TaskRaciKeysTouched(ops) ==
  UNION {{<<r.task_id, r.user_uuid>> : r \in ops[i].rows} :
           i \in {j \in DOMAIN ops : ops[j].k \in {"ins_task_raci", "del_task_raci"}}}

Others(c) == Calls \ {c}
(* Another open transaction holds the row lock of task t *)
TaskRowLocked(c, t) == \E o \in Others(c) : t \in TasksWritten(calls[o].ops)
(* Another open transaction holds a lock on t or on a row that references t *)
TaskPinned(c, t) ==
  \E o \in Others(c) :
     \/ t \in TasksWritten(calls[o].ops) \cup TasksReferenced(calls[o].ops)
     \/ \E s \in SubTasksReferenced(calls[o].ops) :
          SubTaskExists(db, s) /\ db.subtask[s].task_id = t
SubRaciKeysTouched(ops) ==
  UNION {{<<r.subtask_id, r.user_uuid>> : r \in ops[i].rows} :
           i \in {j \in DOMAIN ops :
                    ops[j].k \in {"ins_subtask_raci", "del_subtask_raci"}}}
(* Another open transaction inserted or deleted the task_raci row (t, u) *)
TaskRaciKeyLocked(c, t, u) ==
  \E o \in Others(c) : <<t, u>> \in TaskRaciKeysTouched(calls[o].ops)

(* Another open transaction inserted one of the subtask_raci rows keys *)
SubRaciKeyLocked(c, keys) ==
  \E o \in Others(c) : keys \cap SubRaciKeysTouched(calls[o].ops) # {}

(* --------------------------- the call slots --------------------------- *)
NoInput == [has |-> {}]
NoEntity == [id |-> 0]
Idle ==
  [op |-> "idle", pc |-> "idle", taskId |-> 0, subId |-> 0, input |-> NoInput,
   user |-> NULL, role |-> NULL, ent |-> NoEntity, newId |-> 0, savedId |-> 0,
   i |-> 0, ops |-> <<>>, inTx |-> FALSE, now |-> 0, emitted |-> {},
   result |-> "none", error |-> <<"none", "">>, response |-> NoInput,
   rows |-> {}, changed |-> FALSE, swallowed |-> {}]

(* Result.failure(...) returned by the use case; an open transaction is     *)
(* rolled back by knex when the callback's promise is rejected            *)
FailRec(rec, kind, arg) ==
  [rec EXCEPT !.pc = "done", !.result = "failure", !.error = <<kind, arg>>,
              !.ops = <<>>, !.inTx = FALSE]
Fail(c, kind, arg) == [calls EXCEPT ![c] = FailRec(calls[c], kind, arg)]

(* realtimeBroker.emitXxx(payload) *)
Emit(type, id) == events \cup {[type |-> type, id |-> id]}

(* The calls that will still draw a fresh task / subtask identifier *)
PendingTaskIds ==
  Cardinality({c \in Calls : calls[c].op = "createTask" /\ calls[c].pc = "ct_insert"})
PendingSubIds ==
  Cardinality({c \in Calls : calls[c].op = "createSubTask"
                              /\ calls[c].pc \in {"cs_load", "can_task", "can_raci",
                                                  "cs_insert"}})

(* for (const letter of ['R','A','C','I']) for (const userUuid of users) *)
RECURSIVE RaciList(_, _)
RaciList(raci, i) ==
  IF i > Len(Letters) THEN <<>>
  ELSE [j \in 1..Len(raci[Letters[i]]) |-> <<Letters[i], raci[Letters[i]][j]>>]
         \o RaciList(raci, i + 1)

InputRaciList(input) ==
  IF "raci" \in input.has THEN RaciList(input.raci, 1) ELSE <<>>

(* The { R: [...], A: [...], C: [...], I: [...] } map of a response, from the *)
(* rows read back: each list is kept as the set of its users                *)
RaciMap(rows) ==
  [l \in {"R", "A", "C", "I"} |-> {r.user_uuid : r \in {x \in rows : x.letter = l}}]

Range(seq) == {seq[i] : i \in DOMAIN seq}

(* First element of seq (in list order) that is not in S, or NULL *)
FirstNotInMutant(seq, S) ==
  LET U == {i \in DOMAIN seq : seq[i] \notin S}
  IN IF U = {} THEN NULL ELSE seq[CHOOSE i \in U : \A j \in U : j <= i]
RECURSIVE FirstNotIn(_, _)
FirstNotIn(seq, S) ==
  IF seq = <<>> THEN NULL
  ELSE IF Head(seq) \notin S THEN Head(seq) ELSE FirstNotIn(Tail(seq), S)

(* ------------------------------ Task.create --------------------------- *)
(* The first validation that rejects the props, or "ok" *)
TaskCreateError(props) ==
  IF TitleIsBlank(props.title) THEN "Task title is required"
  ELSE IF props.phaseCode \in {"", NULL} THEN "Phase code is required"
  ELSE IF props.createdBy \in {"", NULL} THEN "Creator is required"
  ELSE IF Less(props.priority, 1) \/ Greater(props.priority, 5)
         THEN "Priority must be between 1 and 5"
  ELSE IF Less(props.progress, 0) \/ Greater(props.progress, 10000)
         THEN "Progress must be between 0 and 100"
  ELSE IF props.plannedStart # NoDate /\ props.plannedEnd # NoDate
          /\ Greater(props.plannedStart, props.plannedEnd)
         THEN "Planned start date must be before planned end date"
  ELSE IF ~PhaseCodeIsValid(props.phaseCode) THEN "Invalid phase code"
  ELSE IF ~PriorityIsValid(props.priority) THEN "Invalid priority value"
  ELSE IF props.ownerUuid # NULL /\ ~UUIDIsValid(props.ownerUuid)
         THEN "Invalid UUID format"
  ELSE IF ~UUIDIsValid(props.createdBy) THEN "Invalid UUID format"
  ELSE "ok"

(* The task row written from a Task entity *)
TaskRow(e) ==
  [phase_code |-> e.phaseCode, title |-> e.title, description |-> e.description,
   priority |-> e.priority, owner_uuid |-> e.ownerUuid, progress |-> e.progress,
   created_by |-> e.createdBy, created_at |-> e.createdAt,
   planned_start |-> e.plannedStart, planned_end |-> e.plannedEnd]

(* TaskKnexRepository.toDomain *)
TaskToDomain(id, r) ==
  [id |-> id, phaseCode |-> r.phase_code, title |-> r.title,
   description |-> r.description, priority |-> r.priority,
   ownerUuid |-> r.owner_uuid, progress |-> r.progress, createdBy |-> r.created_by,
   createdAt |-> r.created_at, plannedStart |-> r.planned_start,
   plannedEnd |-> r.planned_end]

(* ======================= TaskService.createTask ======================= *)
(* Entry: the impacted profiles are verified (profileRepository.findByCode *)
(* per code, first unknown code fails the call), then db.transaction opens *)
CreateTaskCallUpTo(c, input, creatorUuid, maxTasks) ==
  /\ calls[c].pc = "idle"
  /\ requests < MaxRequests
  /\ requests' = requests + 1
  /\ nextTask + PendingTaskIds <= maxTasks
  /\ LET unknown == FirstNotIn(input.profilesImpacted, ProfileCatalog)
         started == [Idle EXCEPT !.op = "createTask", !.input = input,
                                 !.user = creatorUuid]
     IN calls' = [calls EXCEPT ![c] =
          IF unknown # NULL
          THEN [started EXCEPT !.pc = "done", !.result = "failure",
                               !.error = <<"Le profil n'existe pas", unknown>>]
          ELSE [started EXCEPT !.pc = "ct_insert", !.inTx = TRUE]]
  /\ UNCHANGED <<db, events, nextTask, nextSub, now>>

CreateTaskCall(c, input, creatorUuid) ==
  CreateTaskCallUpTo(c, input, creatorUuid, MaxTasks)

(* Task.create({... progress: 0, createdAt: new Date() ...}) and the insert *)
CreateTaskInsert(c) ==
  /\ calls[c].op = "createTask" /\ calls[c].pc = "ct_insert"
  /\ LET in == calls[c].input
         props == [id |-> nextTask, phaseCode |-> in.phaseCode, title |-> in.title,
                   description |-> in.description, priority |-> in.priority,
                   ownerUuid |-> in.ownerUuid, progress |-> 0,
                   createdBy |-> calls[c].user, createdAt |-> now,
                   plannedStart |-> NoDate, plannedEnd |-> NoDate]
         err == TaskCreateError(props)
     IN IF err # "ok"
        THEN /\ calls' = Fail(c, err, "")
             /\ UNCHANGED nextTask
        ELSE /\ calls' = [calls EXCEPT
                  ![c].ent = props, ![c].newId = nextTask, ![c].now = now,
                  ![c].ops = Append(@, [k |-> "ins_task", id |-> nextTask,
                                        row |-> TaskRow(props)]),
                  ![c].pc = "ct_readback"]
             /\ nextTask' = nextTask + 1
  /\ UNCHANGED <<db, events, nextSub, now, requests>>

(* trx('task').where({title, created_by, created_at}).orderBy(...).first() *)
SavedTaskCandidates(d, e) ==
  {t \in DOMAIN d.task : /\ d.task[t].title = e.title
                         /\ d.task[t].created_by = e.createdBy
                         /\ d.task[t].created_at = e.createdAt}

CreateTaskReadBack(c) ==
  /\ calls[c].op = "createTask" /\ calls[c].pc = "ct_readback"
  /\ \E t \in SavedTaskCandidates(View(c), calls[c].ent) :
       calls' = [calls EXCEPT ![c].savedId = t, ![c].i = 1,
                   ![c].pc = IF InputRaciList(calls[c].input) = <<>>
                             THEN "ct_profiles" ELSE "ct_raci"]
  /\ UNCHANGED <<db, events, nextTask, nextSub, now, requests>>

(* One trx('task_raci').insert({task_id, user_uuid, letter}) of the loop; *)
(* the foreign key to task rejects a row for a task that is gone, the     *)
(* primary key (task_id, user_uuid) rejects a second row for a user       *)
CreateTaskRaci(c) ==
  /\ calls[c].op = "createTask" /\ calls[c].pc = "ct_raci"
  /\ LET list == InputRaciList(calls[c].input)
         pair == list[calls[c].i]
         t == calls[c].savedId
         row == [task_id |-> t, user_uuid |-> pair[2], letter |-> pair[1]]
     IN /\ ~TaskRaciKeyLocked(c, t, pair[2])
        /\ IF ~TaskExists(View(c), t)
           THEN calls' = Fail(c, "foreign key task_raci", "")
           ELSE IF TaskRaciKeyExists(View(c), t, pair[2])
           THEN calls' = Fail(c, "duplicate key task_raci", pair[2])
           ELSE calls' = [calls EXCEPT
                  ![c].ops = Append(@, [k |-> "ins_task_raci", rows |-> {row}]),
                  ![c].i = @ + 1,
                  ![c].pc = IF calls[c].i = Len(list) THEN "ct_profiles" ELSE "ct_raci"]
  /\ UNCHANGED <<db, events, nextTask, nextSub, now, requests>>

(* trx('task_profile').insert(profileRows): one multi-row insert; the     *)
(* primary key (task_id, profile_code) rejects a repeated code            *)
ProfileInsertFailsMutant(d, t, codes) ==
  \/ Cardinality(Range(codes)) # Len(codes)
  \/ Range(codes) \cap ProfilesOf(d, t) # {}
  \/ ~TaskExists(d, t)
ProfileInsertFails(d, t, codes) ==
  \/ Cardinality(Range(codes)) # Len(codes)
  \/ Range(codes) \cap ProfilesOf(d, t) # {}
  \/ ~(Range(codes) \subseteq ProfileCatalog)
  \/ ~TaskExists(d, t)

ProfileRows(t, codes) == {[task_id |-> t, profile_code |-> code] : code \in Range(codes)}

CreateTaskProfiles(c) ==
  /\ calls[c].op = "createTask" /\ calls[c].pc = "ct_profiles"
  /\ LET codes == calls[c].input.profilesImpacted
         t == calls[c].savedId
     IN IF codes = <<>>
        THEN calls' = [calls EXCEPT ![c].pc = "ct_respond"]
        ELSE IF ProfileInsertFails(View(c), t, codes)
        THEN calls' = Fail(c, "insert task_profile", "")
        ELSE calls' = [calls EXCEPT
               ![c].ops = Append(@, [k |-> "ins_task_profile",
                                     rows |-> ProfileRows(t, codes)]),
               ![c].pc = "ct_respond"]
  /\ UNCHANGED <<db, events, nextTask, nextSub, now, requests>>

(* The RACI rows are read back, the response is built and                 *)
(* realtimeBroker.emitTaskCreated runs, all inside the transaction callback *)
CreateTaskRespond(c) ==
  /\ calls[c].op = "createTask" /\ calls[c].pc = "ct_respond"
  /\ LET t == calls[c].savedId
         e == calls[c].ent
     IN /\ calls' = [calls EXCEPT
              ![c].response = [id |-> e.id, progress |-> e.progress,
                               raci |-> RaciMap(TaskRaciOf(View(c), t)),
                               subtasks |-> {},
                               profilesImpacted |-> Range(calls[c].input.profilesImpacted)],
              ![c].emitted = @ \cup {"task:created"},
              ![c].pc = "ct_commit"]
        /\ events' = Emit("task:created", t)
  /\ UNCHANGED <<db, nextTask, nextSub, now, requests>>

(* ======== TaskService.lockTaskForEditing / unlockTaskAfterEditing ===== *)
(* No lock is stored: emitTaskLocked(taskId, user) and Result.success, in  *)
(* one synchronous step                                                    *)
LockTaskForEditing(c, taskId, userUuid) ==
  /\ calls[c].pc = "idle"
  /\ requests < MaxRequests
  /\ requests' = requests + 1
  /\ calls' = [calls EXCEPT ![c] =
       [Idle EXCEPT !.op = "lockTaskForEditing", !.pc = "done", !.taskId = taskId,
                    !.user = userUuid, !.emitted = {"task:locked"},
                    !.result = "success"]]
  /\ events' = Emit("task:locked", taskId)
  /\ UNCHANGED <<db, nextTask, nextSub, now>>

(* emitTaskUnlocked(taskId) and Result.success *)
UnlockTaskAfterEditing(c, taskId) ==
  /\ calls[c].pc = "idle"
  /\ requests < MaxRequests
  /\ requests' = requests + 1
  /\ calls' = [calls EXCEPT ![c] =
       [Idle EXCEPT !.op = "unlockTaskAfterEditing", !.pc = "done", !.taskId = taskId,
                    !.emitted = {"task:unlocked"}, !.result = "success"]]
  /\ events' = Emit("task:unlocked", taskId)
  /\ UNCHANGED <<db, nextTask, nextSub, now>>

(* ============== TaskService.canModifyTask / canChangePhase ============ *)
(* A lock that would be held from the emitted presence event on           *)
isTaskLockedMutant(taskId, userUuid) ==
  [locked |-> [type |-> "task:locked", id |-> taskId] \in events, lockedBy |-> NULL]
(* isTaskLocked: no lock is stored, the answer is always { locked: false } *)
isTaskLocked(taskId, userUuid) == [locked |-> FALSE, lockedBy |-> NULL]

(* ['R', 'A'].includes(raci.letter) for a row of this user *)
HasModifyLetterMutant(rows, userUuid) ==
  \E r \in rows : r.user_uuid = userUuid /\ r.letter \in {"R", "A", "C"}
HasModifyLetter(rows, userUuid) ==
  \E r \in rows : r.user_uuid = userUuid /\ r.letter \in {"R", "A"}

(* The part of canModifyTask that follows the RACI lookup *)
CanModifyAfterRaci(rows, taskId, userUuid) ==
  IF ~HasModifyLetter(rows, userUuid) THEN <<"success", FALSE>>
  ELSE LET lockInfo == isTaskLocked(taskId, userUuid)
       IN IF lockInfo.locked /\ lockInfo.lockedBy # userUuid
          THEN <<"failure", FALSE>>
          ELSE <<"success", TRUE>>

(* canModifyTask evaluated on one state d of the store *)
canModifyTask(d, taskId, userUuid, userRole) ==
  IF userRole \in ElevatedRoles THEN <<"success", TRUE>>
  ELSE IF ~TaskExists(d, taskId) THEN <<"failure", FALSE>>
  ELSE IF d.task[taskId].owner_uuid = userUuid THEN <<"success", TRUE>>
  ELSE CanModifyAfterRaci(TaskRaciOf(d, taskId), taskId, userUuid)

(* canChangePhase evaluated on one state d of the store *)
canChangePhaseMutant(d, taskId, userUuid, userRole) ==
  canModifyTask(d, taskId, userUuid, userRole)
canChangePhase(d, taskId, userUuid, userRole) ==
  IF userRole \in ElevatedRoles THEN <<"success", TRUE>>
  ELSE IF ~TaskExists(d, taskId) THEN <<"failure", FALSE>>
  ELSE IF d.task[taskId].owner_uuid = userUuid THEN <<"success", TRUE>>
  ELSE <<"success", FALSE>>

(* ------------------------ Task entity setters ------------------------- *)
(* Each returns <<error, entity>>; error "ok" when the mutation is applied *)
(* this.updatedAt = new Date() *)
Stamp(e) ==
  [f \in DOMAIN e \cup {"updatedAt"} |-> IF f = "updatedAt" THEN now ELSE e[f]]

(* A setter that would assign before it validates *)
updateTitleMutant(e, title) ==
  IF TitleIsBlank(title) THEN <<"Task title is required", [e EXCEPT !.title = title]>>
  ELSE <<"ok", Stamp([e EXCEPT !.title = title])>>
updateTitle(e, title) ==
  IF TitleIsBlank(title) THEN <<"Task title is required", e>>
  ELSE <<"ok", Stamp([e EXCEPT !.title = title])>>
updateDescription(e, description) ==
  <<"ok", Stamp([e EXCEPT !.description = description])>>
updatePriorityMutant(e, priority) == <<"ok", Stamp([e EXCEPT !.priority = priority])>>
updatePriority(e, priority) ==
  IF ~PriorityIsValid(priority) THEN <<"Invalid priority value", e>>
  ELSE <<"ok", Stamp([e EXCEPT !.priority = priority])>>
updatePhase(e, phaseCode) ==
  IF ~PhaseCodeIsValid(phaseCode) THEN <<"Invalid phase code", e>>
  ELSE <<"ok", Stamp([e EXCEPT !.phaseCode = phaseCode])>>
updateOwner(e, ownerUuid) ==
  IF ownerUuid # NULL /\ ~UUIDIsValid(ownerUuid) THEN <<"Invalid UUID format", e>>
  ELSE <<"ok", Stamp([e EXCEPT !.ownerUuid = ownerUuid])>>
updatePlannedDates(e, start, end) ==
  IF start \notin {NoDate, Undefined} /\ end \notin {NoDate, Undefined}
     /\ Greater(start, end)
  THEN <<"Planned start date must be before planned end date", e>>
  ELSE <<"ok", Stamp([e EXCEPT !.plannedStart = start, !.plannedEnd = end])>>
updateProgress(e, progress) ==
  IF Less(progress, 0) \/ Greater(progress, 10000)
  THEN <<"Progress must be between 0 and 100", e>>
  ELSE <<"ok", Stamp([e EXCEPT !.progress = progress])>>

(* SubTask.updateTitle *)
SubTaskUpdateTitle(e, title) ==
  IF TitleIsBlank(title) THEN <<"SubTask title is required", e>>
  ELSE <<"ok", Stamp([e EXCEPT !.title = title])>>

(* Raci.updateLetter: new RaciLetter(letter) throws before the assignment; *)
(* a Raci has no updatedAt                                                 *)
RaciLetterIsValid(v) == v \in {"R", "A", "C", "I"}
RaciUpdateLetter(e, letter) ==
  IF ~RaciLetterIsValid(letter) THEN <<"Invalid RACI letter", e>>
  ELSE <<"ok", [e EXCEPT !.letter = letter]>>

(* input.x of an UpdateTaskInput, undefined when not supplied *)
InputDate(input, f) == IF f \in input.has THEN input[f] ELSE Undefined

(* updateTask, lines 351-371: title, description, priority, in this order *)
ApplyTitleDescPriority(e, input) ==
  LET r1 == IF "title" \in input.has THEN updateTitle(e, input.title) ELSE <<"ok", e>>
      r2 == IF r1[1] # "ok" THEN r1
            ELSE IF "description" \in input.has
                 THEN updateDescription(r1[2], input.description) ELSE r1
      r3 == IF r2[1] # "ok" THEN r2
            ELSE IF "priority" \in input.has
                 THEN updatePriority(r2[2], input.priority) ELSE r2
  IN r3

(* updateTask, lines 387-406: phase, then owner, then planned dates *)
ApplyPhaseOwnerDates(e, input, phaseChanges) ==
  LET r1 == IF phaseChanges THEN updatePhase(e, input.phaseCode) ELSE <<"ok", e>>
      r2 == IF r1[1] # "ok" THEN r1
            ELSE IF "ownerUuid" \in input.has
                 THEN updateOwner(r1[2], input.ownerUuid) ELSE r1
      r3 == IF r2[1] # "ok" THEN r2
            ELSE IF "plannedStart" \in input.has \/ "plannedEnd" \in input.has
                 THEN updatePlannedDates(r2[2], InputDate(input, "plannedStart"),
                                         InputDate(input, "plannedEnd"))
                 ELSE r2
  IN r3

(* input.phaseCode !== undefined && input.phaseCode !== task.getPhaseCode() *)
PhaseChanges(e, input) == "phaseCode" \in input.has /\ input.phaseCode # e.phaseCode

(* ======================= TaskService.updateTask ======================= *)
(* updateTask once canChangePhase has answered TRUE (or was not needed):   *)
(* the remaining setters run, then db.transaction opens                   *)
UpdateTaskAfterPhase(rec, phaseChanges) ==
  LET r == ApplyPhaseOwnerDates(rec.ent, rec.input, phaseChanges)
  IN IF r[1] # "ok" THEN FailRec(rec, r[1], "")
     ELSE [rec EXCEPT !.ent = r[2], !.pc = "ut_update", !.inTx = TRUE]

(* updateTask once canModifyTask has answered TRUE: lines 351-391 *)
UpdateTaskAfterCanModifyMutant(rec) ==
  LET r == ApplyTitleDescPriority(rec.ent, rec.input)
  IN IF r[1] # "ok" THEN FailRec(rec, r[1], "")
     ELSE UpdateTaskAfterPhase([rec EXCEPT !.ent = r[2]], PhaseChanges(r[2], rec.input))
UpdateTaskAfterCanModify(rec) ==
  LET r == ApplyTitleDescPriority(rec.ent, rec.input)
  IN IF r[1] # "ok" THEN FailRec(rec, r[1], "")
     ELSE LET rec2 == [rec EXCEPT !.ent = r[2]]
          IN IF ~PhaseChanges(r[2], rec.input) THEN UpdateTaskAfterPhase(rec2, FALSE)
             ELSE IF rec.role \in ElevatedRoles THEN UpdateTaskAfterPhase(rec2, TRUE)
             ELSE [rec2 EXCEPT !.pc = "ut_phase"]

(* SubTask.create in createSubTask, then db.transaction opens *)
CreateSubTaskAfterCanModify(rec) ==
  IF TitleIsBlank(rec.input.title) THEN FailRec(rec, "SubTask title is required", "")
  ELSE [rec EXCEPT !.pc = "cs_insert", !.inTx = TRUE]

(* subtask.markCompleted() / markIncomplete() in updateSubTaskStatus *)
UpdateSubTaskAfterCanModify(rec) ==
  [rec EXCEPT !.ent.completed = rec.input.done, !.pc = "us_save_exists"]

AfterCanModify(rec) ==
  CASE rec.op = "updateTask" -> UpdateTaskAfterCanModify(rec)
    [] rec.op = "createSubTask" -> CreateSubTaskAfterCanModify(rec)
    [] rec.op = "updateSubTaskStatus" -> UpdateSubTaskAfterCanModify(rec)
    [] OTHER -> rec

ForbiddenMutant(rec) ==
  IF rec.op = "updateSubTaskStatus" /\ rec.ent.createdBy = rec.user
  THEN AfterCanModify(rec)
  ELSE FailRec(rec, "Forbidden", "needs R or A or be owner/CP/RF")
Forbidden(rec) ==
  FailRec(rec, "Forbidden", "needs R or A or be owner/CP/RF")

(* The call rec enters canModifyTask(rec.taskId, rec.user, rec.role): CP   *)
(* and RF are answered without a query, the others go on to findById      *)
EnterCanModify(rec) ==
  IF rec.role \in ElevatedRoles THEN AfterCanModify(rec)
  ELSE [rec EXCEPT !.pc = "can_task"]

(* canModifyTask: taskRepository.findById, then the owner test *)
CanModifyTaskLoad(c) ==
  /\ calls[c].pc = "can_task"
  /\ LET rec == calls[c]
         t == rec.taskId
     IN calls' = [calls EXCEPT ![c] =
          IF ~TaskExists(db, t) THEN FailRec(rec, "Task not found", "")
          ELSE IF db.task[t].owner_uuid = rec.user THEN AfterCanModify(rec)
          ELSE [rec EXCEPT !.pc = "can_raci"]]
  /\ UNCHANGED <<db, events, nextTask, nextSub, now, requests>>

(* canModifyTask: raciRepository.findByTaskId, the R/A test, the lock test *)
CanModifyTaskRaci(c) ==
  /\ calls[c].pc = "can_raci"
  /\ LET rec == calls[c]
         res == CanModifyAfterRaci(TaskRaciOf(db, rec.taskId), rec.taskId, rec.user)
     IN calls' = [calls EXCEPT ![c] =
          IF res[1] = "failure"
          THEN FailRec(rec, "Conflict", "task is being edited by another user")
          ELSE IF res[2] THEN AfterCanModify(rec) ELSE Forbidden(rec)]
  /\ UNCHANGED <<db, events, nextTask, nextSub, now, requests>>

UpdateTaskCall(c, taskId, input, userUuid, userRole) ==
  /\ calls[c].pc = "idle"
  /\ requests < MaxRequests
  /\ requests' = requests + 1
  /\ calls' = [calls EXCEPT ![c] =
       [Idle EXCEPT !.op = "updateTask", !.pc = "ut_load", !.taskId = taskId,
                    !.input = input, !.user = userUuid, !.role = userRole]]
  /\ UNCHANGED <<db, events, nextTask, nextSub, now>>

(* taskRepository.findById(taskId), then canModifyTask is entered *)
UpdateTaskLoad(c) ==
  /\ calls[c].op = "updateTask" /\ calls[c].pc = "ut_load"
  /\ LET rec == calls[c]
         t == rec.taskId
     IN calls' = [calls EXCEPT ![c] =
          IF ~TaskExists(db, t) THEN FailRec(rec, "Task not found", "")
          ELSE EnterCanModify([rec EXCEPT !.ent = TaskToDomain(t, db.task[t])])]
  /\ UNCHANGED <<db, events, nextTask, nextSub, now, requests>>

(* canChangePhase for a caller that is not CP/RF: findById, the owner test *)
UpdateTaskPhase(c) ==
  /\ calls[c].op = "updateTask" /\ calls[c].pc = "ut_phase"
  /\ LET rec == calls[c]
         res == canChangePhase(db, rec.taskId, rec.user, rec.role)
     IN calls' = [calls EXCEPT ![c] =
          IF res[1] = "failure" THEN FailRec(rec, "Task not found", "")
          ELSE IF ~res[2]
               THEN FailRec(rec, "Forbidden", "needs to be owner, CP or RF")
          ELSE UpdateTaskAfterPhase(rec, TRUE)]
  /\ UNCHANGED <<db, events, nextTask, nextSub, now, requests>>

(* The columns trx('task').where('id', taskId).update({...}) writes: the     *)
(* whole entity as loaded at the start of the call, progress included      *)
(* The query builder leaves out of the UPDATE the keys whose value is       *)
(* undefined: an owner that is not set, a planned date that updatePlannedDates *)
(* was not given                                                           *)
UndefinedColumns(e) ==
  (IF e.ownerUuid = NULL THEN {"owner_uuid"} ELSE {})
    \cup (IF e.plannedStart = Undefined THEN {"planned_start"} ELSE {})
    \cup (IF e.plannedEnd = Undefined THEN {"planned_end"} ELSE {})

TaskUpdateColumns(e) ==
  LET row == [phase_code |-> e.phaseCode, title |-> e.title,
              description |-> e.description, priority |-> e.priority,
              owner_uuid |-> e.ownerUuid, progress |-> e.progress,
              planned_start |-> e.plannedStart, planned_end |-> e.plannedEnd]
  IN [f \in DOMAIN row \ UndefinedColumns(e) |-> row[f]]

UpdateTaskNextPc(input, after) ==
  CASE after = "update" /\ "raci" \in input.has -> "ut_raci_del"
    [] after \in {"update", "raci"} /\ "profilesImpacted" \in input.has -> "ut_prof_del"
    [] OTHER -> "ut_respond"

UpdateTaskWrite(c) ==
  /\ calls[c].op = "updateTask" /\ calls[c].pc = "ut_update"
  /\ ~TaskRowLocked(c, calls[c].taskId)
  /\ calls' = [calls EXCEPT
       ![c].ops = Append(@, [k |-> "upd_task", id |-> calls[c].taskId,
                             row |-> TaskUpdateColumns(calls[c].ent)]),
       ![c].now = now,
       ![c].pc = UpdateTaskNextPc(calls[c].input, "update")]
  /\ UNCHANGED <<db, events, nextTask, nextSub, now, requests>>

(* The rows matched by trx('task_raci').where('task_id', taskId).delete() *)
DeletedTaskRaci(d, t) == TaskRaciOf(d, t)

(* trx('task_raci').where('task_id', taskId).delete() *)
UpdateTaskRaciDelete(c) ==
  /\ calls[c].op = "updateTask" /\ calls[c].pc = "ut_raci_del"
  /\ calls' = [calls EXCEPT
       ![c].ops = Append(@, [k |-> "del_task_raci",
                             rows |-> DeletedTaskRaci(View(c), calls[c].taskId)]),
       ![c].i = 1,
       ![c].pc = IF InputRaciList(calls[c].input) = <<>>
                 THEN UpdateTaskNextPc(calls[c].input, "raci") ELSE "ut_raci_ins"]
  /\ UNCHANGED <<db, events, nextTask, nextSub, now, requests>>

(* One trx('task_raci').insert(...) of the replacement loop *)
UpdateTaskRaciInsert(c) ==
  /\ calls[c].op = "updateTask" /\ calls[c].pc = "ut_raci_ins"
  /\ LET list == InputRaciList(calls[c].input)
         pair == list[calls[c].i]
         t == calls[c].taskId
         row == [task_id |-> t, user_uuid |-> pair[2], letter |-> pair[1]]
     IN /\ ~TaskRaciKeyLocked(c, t, pair[2])
        /\ IF ~TaskExists(View(c), t)
           THEN calls' = Fail(c, "foreign key task_raci", "")
           ELSE IF TaskRaciKeyExists(View(c), t, pair[2])
           THEN calls' = Fail(c, "duplicate key task_raci", pair[2])
           ELSE calls' = [calls EXCEPT
                  ![c].ops = Append(@, [k |-> "ins_task_raci", rows |-> {row}]),
                  ![c].i = @ + 1,
                  ![c].pc = IF calls[c].i = Len(list)
                            THEN UpdateTaskNextPc(calls[c].input, "raci")
                            ELSE "ut_raci_ins"]
  /\ UNCHANGED <<db, events, nextTask, nextSub, now, requests>>

(* trx('task_profile').where('task_id', taskId).delete(), and the         *)
(* multi-row insert of the supplied codes when there are any              *)
UpdateTaskProfilesDelete(c) ==
  /\ calls[c].op = "updateTask" /\ calls[c].pc = "ut_prof_del"
  /\ LET t == calls[c].taskId
     IN calls' = [calls EXCEPT
          ![c].ops = Append(@, [k |-> "del_task_profile",
                                rows |-> {r \in View(c).task_profile : r.task_id = t}]),
          ![c].pc = IF calls[c].input.profilesImpacted = <<>>
                    THEN "ut_respond" ELSE "ut_prof_ins"]
  /\ UNCHANGED <<db, events, nextTask, nextSub, now, requests>>

UpdateTaskProfilesInsert(c) ==
  /\ calls[c].op = "updateTask" /\ calls[c].pc = "ut_prof_ins"
  /\ LET t == calls[c].taskId
         codes == calls[c].input.profilesImpacted
     IN IF ProfileInsertFails(View(c), t, codes)
        THEN calls' = Fail(c, "insert task_profile", "")
        ELSE calls' = [calls EXCEPT
               ![c].ops = Append(@, [k |-> "ins_task_profile",
                                     rows |-> ProfileRows(t, codes)]),
               ![c].pc = "ut_respond"]
  /\ UNCHANGED <<db, events, nextTask, nextSub, now, requests>>

(* The RACI rows, subtasks and profiles are read back for the response and *)
(* realtimeBroker.emitTaskUpdated runs, inside the transaction callback    *)
UpdateTaskRespond(c) ==
  /\ calls[c].op = "updateTask" /\ calls[c].pc = "ut_respond"
  /\ LET t == calls[c].taskId
         e == calls[c].ent
     IN /\ calls' = [calls EXCEPT
              ![c].response = [id |-> e.id, progress |-> e.progress,
                               raci |-> RaciMap(TaskRaciOf(View(c), t)),
                               subtasks |-> SubTasksOf(View(c), t),
                               profilesImpacted |-> ProfilesOf(View(c), t)],
              ![c].emitted = @ \cup {"task:updated"},
              ![c].pc = "ut_commit"]
        /\ events' = Emit("task:updated", t)
  /\ UNCHANGED <<db, nextTask, nextSub, now, requests>>

(* ====================== TaskService.createSubTask ===================== *)
(* subtaskData.done || false *)
DoneOrFalse(subtaskData) == IF "done" \in subtaskData.has THEN subtaskData.done ELSE FALSE

CreateSubTaskCall(c, taskId, subtaskData, userUuid, userRole) ==
  /\ calls[c].pc = "idle"
  /\ requests < MaxRequests
  /\ requests' = requests + 1
  /\ nextSub + PendingSubIds <= MaxSubTasks
  /\ calls' = [calls EXCEPT ![c] =
       [Idle EXCEPT !.op = "createSubTask", !.pc = "cs_load", !.taskId = taskId,
                    !.input = subtaskData, !.user = userUuid, !.role = userRole]]
  /\ UNCHANGED <<db, events, nextTask, nextSub, now>>

(* taskRepository.findById(taskId), then canModifyTask is entered *)
CreateSubTaskLoad(c) ==
  /\ calls[c].op = "createSubTask" /\ calls[c].pc = "cs_load"
  /\ LET rec == calls[c]
     IN calls' = [calls EXCEPT ![c] =
          IF ~TaskExists(db, rec.taskId) THEN FailRec(rec, "Task not found", "")
          ELSE EnterCanModify(rec)]
  /\ UNCHANGED <<db, events, nextTask, nextSub, now, requests>>

(* subtask.task_id REFERENCES task(id): the insert is rejected when the     *)
(* parent row is not there                                                 *)
SubTaskForeignKeyFailsMutant(d, t) == FALSE
SubTaskForeignKeyFails(d, t) == ~TaskExists(d, t)

(* const now = new Date(); trx('subtask').insert({...}): the row gets a     *)
(* database-generated id, the foreign key to task is verified and the      *)
(* subtask_progress trigger updates the parent's row                       *)
CreateSubTaskInsert(c) ==
  /\ calls[c].op = "createSubTask" /\ calls[c].pc = "cs_insert"
  /\ LET rec == calls[c]
         t == rec.taskId
         row == [task_id |-> t, title |-> rec.input.title,
                 completed |-> DoneOrFalse(rec.input), created_by |-> rec.user,
                 created_at |-> now]
     IN /\ ~TaskRowLocked(c, t)
        /\ IF SubTaskForeignKeyFails(View(c), t)
           THEN /\ calls' = Fail(c, "foreign key subtask", "")
                /\ UNCHANGED nextSub
           ELSE /\ calls' = [calls EXCEPT
                     ![c].newId = nextSub, ![c].now = now,
                     ![c].ent = [id |-> 0, taskId |-> t, title |-> rec.input.title,
                                 completed |-> DoneOrFalse(rec.input), createdBy |-> rec.user],
                     ![c].ops = Append(@, [k |-> "ins_subtask", id |-> nextSub,
                                           row |-> row]),
                     ![c].pc = "cs_readback"]
                /\ nextSub' = nextSub + 1
  /\ UNCHANGED <<db, events, nextTask, now, requests>>

(* trx('subtask').where({title, task_id, created_by})                      *)
(*   .orderBy('created_at', 'desc').first(): a row of the latest created_at; *)
(* the order among rows of equal created_at is the store's choice          *)
SavedSubTaskCandidates(d, e) ==
  LET match == {s \in DOMAIN d.subtask : /\ d.subtask[s].title = e.title
                                         /\ d.subtask[s].task_id = e.taskId
                                         /\ d.subtask[s].created_by = e.createdBy}
  IN {s \in match : \A o \in match : d.subtask[o].created_at <= d.subtask[s].created_at}

CreateSubTaskReadBack(c) ==
  /\ calls[c].op = "createSubTask" /\ calls[c].pc = "cs_readback"
  /\ \E s \in SavedSubTaskCandidates(View(c), calls[c].ent) :
       calls' = [calls EXCEPT ![c].savedId = s, ![c].pc = "cs_read_raci"]
  /\ UNCHANGED <<db, events, nextTask, nextSub, now, requests>>

(* trx('task_raci').where('task_id', taskId).select('*') *)
CreateSubTaskReadRaci(c) ==
  /\ calls[c].op = "createSubTask" /\ calls[c].pc = "cs_read_raci"
  /\ LET taskRacis == TaskRaciOf(View(c), calls[c].taskId)
     IN calls' = [calls EXCEPT ![c].rows = taskRacis,
                    ![c].pc = IF taskRacis = {} THEN "cs_respond" ELSE "cs_ins_raci"]
  /\ UNCHANGED <<db, events, nextTask, nextSub, now, requests>>

(* taskRacis.map(raci => ({subtask_id: subtaskId, user_uuid, letter})) *)
SubTaskRaciCopiesMutant(taskRacis, subtaskId) ==
  {[subtask_id |-> subtaskId, user_uuid |-> r.user_uuid, letter |-> r.letter] :
     r \in {x \in taskRacis : x.letter \in {"R", "A"}}}
SubTaskRaciCopies(taskRacis, subtaskId) ==
  {[subtask_id |-> subtaskId, user_uuid |-> r.user_uuid, letter |-> r.letter] :
     r \in taskRacis}

(* trx('subtask_raci').insert(subtaskRacis): one multi-row insert *)
CreateSubTaskInsertRaci(c) ==
  /\ calls[c].op = "createSubTask" /\ calls[c].pc = "cs_ins_raci"
  /\ LET s == calls[c].savedId
         copies == SubTaskRaciCopies(calls[c].rows, s)
         keys == {<<r.subtask_id, r.user_uuid>> : r \in copies}
     IN /\ ~SubRaciKeyLocked(c, keys)
        /\ IF ~SubTaskExists(View(c), s)
           THEN calls' = Fail(c, "foreign key subtask_raci", "")
           ELSE IF \E r \in SubRaciOf(View(c), s) : <<s, r.user_uuid>> \in keys
           THEN calls' = Fail(c, "duplicate key subtask_raci", "")
           ELSE calls' = [calls EXCEPT
                  ![c].ops = Append(@, [k |-> "ins_subtask_raci", rows |-> copies]),
                  ![c].pc = "cs_respond"]
  /\ UNCHANGED <<db, events, nextTask, nextSub, now, requests>>

(* The subtask's RACI rows are read back, the response is built and        *)
(* realtimeBroker.emitSubTaskUpdated runs, inside the transaction callback *)
CreateSubTaskRespond(c) ==
  /\ calls[c].op = "createSubTask" /\ calls[c].pc = "cs_respond"
  /\ LET s == calls[c].savedId
     IN /\ calls' = [calls EXCEPT
              ![c].response = [id |-> s, taskId |-> calls[c].taskId,
                               raci |-> RaciMap(SubRaciOf(View(c), s))],
              ![c].emitted = @ \cup {"subtask:updated"},
              ![c].pc = "cs_commit"]
        /\ events' = Emit("subtask:updated", s)
  /\ UNCHANGED <<db, nextTask, nextSub, now, requests>>

(* =================== TaskService.updateSubTaskStatus ================== *)
(* SubTaskKnexRepository.toDomain *)
SubTaskToDomain(id, r) ==
  [id |-> id, taskId |-> r.task_id, title |-> r.title, completed |-> r.completed,
   createdBy |-> r.created_by]

UpdateSubTaskStatusCall(c, subtaskId, done, userUuid, userRole) ==
  /\ calls[c].pc = "idle"
  /\ requests < MaxRequests
  /\ requests' = requests + 1
  /\ calls' = [calls EXCEPT ![c] =
       [Idle EXCEPT !.op = "updateSubTaskStatus", !.pc = "us_load",
                    !.subId = subtaskId, !.input = [has |-> {"done"}, done |-> done],
                    !.user = userUuid, !.role = userRole]]
  /\ UNCHANGED <<db, events, nextTask, nextSub, now>>

(* subtaskRepository.findById(subtaskId), then canModifyTask on its parent *)
UpdateSubTaskStatusLoad(c) ==
  /\ calls[c].op = "updateSubTaskStatus" /\ calls[c].pc = "us_load"
  /\ LET rec == calls[c]
         s == rec.subId
     IN calls' = [calls EXCEPT ![c] =
          IF ~SubTaskExists(db, s) THEN FailRec(rec, "SubTask not found", "")
          ELSE EnterCanModify([rec EXCEPT !.ent = SubTaskToDomain(s, db.subtask[s]),
                                          !.taskId = db.subtask[s].task_id])]
  /\ UNCHANGED <<db, events, nextTask, nextSub, now, requests>>

(* SubTaskKnexRepository.save: `exists = await query().where('id', id).first()` *)
SubTaskSaveExists(c) ==
  /\ calls[c].op = "updateSubTaskStatus" /\ calls[c].pc = "us_save_exists"
  /\ calls' = [calls EXCEPT ![c].i = IF SubTaskExists(db, calls[c].subId) THEN 1 ELSE 0,
                            ![c].pc = "us_save_write"]
  /\ UNCHANGED <<db, events, nextTask, nextSub, now, requests>>

(* The stored progress of task t, NULL when the task is absent *)
ProgressOf(d, t) == IF TaskExists(d, t) THEN d.task[t].progress ELSE NULL

(* SubTaskKnexRepository.save: the UPDATE (title, completed) or the INSERT, *)
(* one autocommitted statement; the subtask_progress trigger runs in it;   *)
(* `changed` records whether that statement moved the parent's progress    *)
SubTaskSaveWrite(c) ==
  /\ calls[c].op = "updateSubTaskStatus" /\ calls[c].pc = "us_save_write"
  /\ LET rec == calls[c]
         e == rec.ent
         row == [task_id |-> e.taskId, title |-> e.title, completed |-> e.completed,
                 created_by |-> e.createdBy, created_at |-> now]
     IN /\ ~TaskRowLocked(c, e.taskId)
        /\ IF rec.i = 1
           THEN /\ db' = ApplyOp(db, [k |-> "upd_subtask", id |-> e.id,
                                      title |-> e.title, completed |-> e.completed])
                /\ calls' = [calls EXCEPT ![c].pc = "us_save_find",
                                          ![c].changed = ProgressOf(db', e.taskId)
                                                           # ProgressOf(db, e.taskId)]
           ELSE IF ~TaskExists(db, e.taskId) \/ SubTaskExists(db, e.id)
           THEN /\ calls' = Fail(c, "insert subtask", "")
                /\ UNCHANGED db
           ELSE /\ db' = ApplyOp(db, [k |-> "ins_subtask", id |-> e.id, row |-> row])
                /\ calls' = [calls EXCEPT ![c].pc = "us_save_find",
                                          ![c].changed = ProgressOf(db', e.taskId)
                                                           # ProgressOf(db, e.taskId)]
  /\ UNCHANGED <<events, nextTask, nextSub, now, requests>>

(* SubTaskKnexRepository.save: `return this.findById(dto.id)` *)
SubTaskSaveFind(c) ==
  /\ calls[c].op = "updateSubTaskStatus" /\ calls[c].pc = "us_save_find"
  /\ LET rec == calls[c]
         s == rec.subId
     IN calls' = [calls EXCEPT ![c] =
          IF ~SubTaskExists(db, s) THEN FailRec(rec, "SubTask not found", "")
          ELSE [rec EXCEPT !.ent = SubTaskToDomain(s, db.subtask[s]), !.pc = "us_raci"]]
  /\ UNCHANGED <<db, events, nextTask, nextSub, now, requests>>

(* raciRepository.findBySubTaskId (the query may fail: `ok`; a failure     *)
(* counts as no rows and is recorded in `swallowed`), the                  *)
(* response is built, realtimeBroker.emitSubTaskUpdated                    *)
UpdateSubTaskStatusRaci(c) ==
  /\ calls[c].op = "updateSubTaskStatus" /\ calls[c].pc = "us_raci"
  /\ \E ok \in BOOLEAN :
     LET s == calls[c].subId
         raciAssignments == IF ok THEN SubRaciOf(db, s) ELSE {}
     IN /\ calls' = [calls EXCEPT
              ![c].response = [id |-> s, taskId |-> calls[c].ent.taskId,
                               completed |-> calls[c].ent.completed,
                               raci |-> RaciMap(raciAssignments)],
              ![c].swallowed = IF ok THEN @ ELSE @ \cup {"findBySubTaskId"},
              ![c].emitted = @ \cup {"subtask:updated"},
              ![c].pc = "us_task"]
        /\ events' = Emit("subtask:updated", s)
  /\ UNCHANGED <<db, nextTask, nextSub, now, requests>>

(* taskRepository.findById(taskId); emitTaskUpdated when it is found; the   *)
(* call returns Result.success either way                                  *)
UpdateSubTaskStatusTask(c) ==
  /\ calls[c].op = "updateSubTaskStatus" /\ calls[c].pc = "us_task"
  /\ \E ok \in BOOLEAN :
     LET t == calls[c].taskId
         found == ok /\ TaskExists(db, t)
     IN /\ calls' = [calls EXCEPT
              ![c].emitted = IF found THEN @ \cup {"task:updated"} ELSE @,
              ![c].swallowed = IF found THEN @ ELSE @ \cup {"findById"},
              ![c].pc = "done", ![c].result = "success"]
        /\ events' = IF found THEN Emit("task:updated", t) ELSE events
  /\ UNCHANGED <<db, nextTask, nextSub, now, requests>>

(* ==================== TaskService.getTaskWithDetails ================== *)
GetTaskWithDetailsCall(c, taskId) ==
  /\ calls[c].pc = "idle"
  /\ requests < MaxRequests
  /\ requests' = requests + 1
  /\ calls' = [calls EXCEPT ![c] =
       [Idle EXCEPT !.op = "getTaskWithDetails", !.pc = "gd_task", !.taskId = taskId]]
  /\ UNCHANGED <<db, events, nextTask, nextSub, now>>

(* taskRepository.findById(taskId): its failure is returned *)
GetTaskWithDetailsTask(c) ==
  /\ calls[c].op = "getTaskWithDetails" /\ calls[c].pc = "gd_task"
  /\ \E ok \in BOOLEAN :
     LET rec == calls[c]
         t == rec.taskId
     IN calls' = [calls EXCEPT ![c] =
          IF ~ok THEN FailRec(rec, "query failed", "")
          ELSE IF ~TaskExists(db, t) THEN FailRec(rec, "Task not found", "")
          ELSE [rec EXCEPT !.ent = TaskToDomain(t, db.task[t]), !.pc = "gd_raci"]]
  /\ UNCHANGED <<db, events, nextTask, nextSub, now, requests>>

(* raciRepository.findByTaskId: `isSuccess() ? getValue() : []` *)
GetTaskWithDetailsRaci(c) ==
  /\ calls[c].op = "getTaskWithDetails" /\ calls[c].pc = "gd_raci"
  /\ \E ok \in BOOLEAN :
       calls' = [calls EXCEPT
         ![c].rows = IF ok THEN TaskRaciOf(db, calls[c].taskId) ELSE {},
         ![c].swallowed = IF ok THEN @ ELSE @ \cup {"findByTaskId raci"},
         ![c].pc = "gd_subtasks"]
  /\ UNCHANGED <<db, events, nextTask, nextSub, now, requests>>

(* subtaskRepository.findByTaskId: `isSuccess() ? getValue() : []` *)
GetTaskWithDetailsSubTasks(c) ==
  /\ calls[c].op = "getTaskWithDetails" /\ calls[c].pc = "gd_subtasks"
  /\ \E ok \in BOOLEAN :
       calls' = [calls EXCEPT
         ![c].response = [subtasks |-> IF ok THEN SubTasksOf(db, calls[c].taskId) ELSE {}],
         ![c].swallowed = IF ok THEN @ ELSE @ \cup {"findByTaskId subtask"},
         ![c].pc = "gd_profiles"]
  /\ UNCHANGED <<db, events, nextTask, nextSub, now, requests>>

(* profileRepository.findByTaskId: `isSuccess() ? getValue() : []`; the    *)
(* DTO is built and returned as a success                                  *)
GetTaskWithDetailsProfiles(c) ==
  /\ calls[c].op = "getTaskWithDetails" /\ calls[c].pc = "gd_profiles"
  /\ \E ok \in BOOLEAN :
     LET t == calls[c].taskId
         e == calls[c].ent
     IN calls' = [calls EXCEPT
          ![c].response = [id |-> e.id, progress |-> e.progress,
                           raci |-> RaciMap(calls[c].rows),
                           subtasks |-> calls[c].response.subtasks,
                           profilesImpacted |-> IF ok THEN ProfilesOf(db, t) ELSE {}],
          ![c].swallowed = IF ok THEN @ ELSE @ \cup {"findByTaskId profile"},
          ![c].pc = "done", ![c].result = "success"]
  /\ UNCHANGED <<db, events, nextTask, nextSub, now, requests>>

(* ======================== TaskService.deleteTask ====================== *)
(* isOwner = task.getOwnerUuid() === userUuid;                              *)
(* hasPermission = ['CP', 'RF'].includes(userRole) || isOwner              *)
hasPermissionMutant(task, userUuid, userRole) ==
  \/ userRole \in ElevatedRoles \/ task.ownerUuid = userUuid
  \/ HasModifyLetter(TaskRaciOf(db, task.id), userUuid)
hasPermission(task, userUuid, userRole) ==
  userRole \in ElevatedRoles \/ task.ownerUuid = userUuid

DeleteTaskCall(c, taskId, userUuid, userRole) ==
  /\ calls[c].pc = "idle"
  /\ requests < MaxRequests
  /\ requests' = requests + 1
  /\ calls' = [calls EXCEPT ![c] =
       [Idle EXCEPT !.op = "deleteTask", !.pc = "dt_load", !.taskId = taskId,
                    !.user = userUuid, !.role = userRole]]
  /\ UNCHANGED <<db, events, nextTask, nextSub, now>>

(* taskRepository.findById, then the CP / RF / owner test *)
DeleteTaskLoad(c) ==
  /\ calls[c].op = "deleteTask" /\ calls[c].pc = "dt_load"
  /\ LET rec == calls[c]
         t == rec.taskId
     IN calls' = [calls EXCEPT ![c] =
          IF ~TaskExists(db, t) THEN FailRec(rec, "Task not found", "")
          ELSE IF ~hasPermission(TaskToDomain(t, db.task[t]), rec.user, rec.role)
               THEN FailRec(rec, "Forbidden", "needs to be owner, CP or RF")
          ELSE [rec EXCEPT !.ent = TaskToDomain(t, db.task[t]), !.pc = "dt_delete"]]
  /\ UNCHANGED <<db, events, nextTask, nextSub, now, requests>>

(* taskRepository.delete(taskId): one autocommitted DELETE with its        *)
(* cascades, then realtimeBroker.emitTaskDeleted                           *)
DeleteTaskDelete(c) ==
  /\ calls[c].op = "deleteTask" /\ calls[c].pc = "dt_delete"
  /\ LET t == calls[c].taskId
     IN /\ ~TaskPinned(c, t)
        /\ IF ~TaskExists(db, t)
           THEN /\ calls' = Fail(c, "Task not found", "")
                /\ UNCHANGED <<db, events>>
           ELSE /\ db' = DeleteCascade(db, t)
                /\ calls' = [calls EXCEPT ![c].emitted = @ \cup {"task:deleted"},
                                          ![c].pc = "done", ![c].result = "success"]
                /\ events' = Emit("task:deleted", t)
  /\ UNCHANGED <<nextTask, nextSub, now, requests>>

(* ========================= RaciKnexRepository ========================= *)
(* The repository methods called without a transaction handle: every       *)
(* statement is autocommitted                                              *)
SaveTaskRaciCall(c, taskId, userUuid, letter) ==
  /\ calls[c].pc = "idle"
  /\ requests < MaxRequests
  /\ requests' = requests + 1
  /\ calls' = [calls EXCEPT ![c] =
       [Idle EXCEPT !.op = "saveTaskRaci", !.pc = "str_existing", !.taskId = taskId,
                    !.user = userUuid, !.input = [has |-> {"letter"}, letter |-> letter]]]
  /\ UNCHANGED <<db, events, nextTask, nextSub, now>>

(* existing = await queryBuilder.where(task_id).where(user_uuid).first() *)
SaveTaskRaciExisting(c) ==
  /\ calls[c].op = "saveTaskRaci" /\ calls[c].pc = "str_existing"
  /\ LET t == calls[c].taskId
         u == calls[c].user
     IN calls' = [calls EXCEPT
          ![c].i = IF \E r \in TaskRaciOf(db, t) : r.user_uuid = u THEN 1 ELSE 0,
          ![c].pc = "str_write"]
  /\ UNCHANGED <<db, events, nextTask, nextSub, now, requests>>

(* update({letter}) of the existing row, or insert({task_id, user_uuid, letter}) *)
SaveTaskRaciWrite(c) ==
  /\ calls[c].op = "saveTaskRaci" /\ calls[c].pc = "str_write"
  /\ LET t == calls[c].taskId
         u == calls[c].user
         l == calls[c].input.letter
         mine == {r \in db.task_raci : r.task_id = t /\ r.user_uuid = u}
         row == [task_id |-> t, user_uuid |-> u, letter |-> l]
     IN /\ ~TaskRaciKeyLocked(c, t, u)
        /\ IF calls[c].i = 1
           THEN /\ db' = [db EXCEPT !.task_raci =
                            (@ \ mine) \cup {[r EXCEPT !.letter = l] : r \in mine}]
                /\ calls' = [calls EXCEPT ![c].pc = "done", ![c].result = "success"]
           ELSE IF TaskRaciKeyExists(db, t, u) \/ ~TaskExists(db, t)
           THEN /\ calls' = Fail(c, "insert task_raci", "")
                /\ UNCHANGED db
           ELSE /\ db' = [db EXCEPT !.task_raci = @ \cup {row}]
                /\ calls' = [calls EXCEPT ![c].pc = "done", ![c].result = "success"]
  /\ UNCHANGED <<events, nextTask, nextSub, now, requests>>

SaveSubTaskRaciCall(c, subtaskId, userUuid, letter) ==
  /\ calls[c].pc = "idle"
  /\ requests < MaxRequests
  /\ requests' = requests + 1
  /\ calls' = [calls EXCEPT ![c] =
       [Idle EXCEPT !.op = "saveSubTaskRaci", !.pc = "ssr_existing",
                    !.subId = subtaskId, !.user = userUuid,
                    !.input = [has |-> {"letter"}, letter |-> letter]]]
  /\ UNCHANGED <<db, events, nextTask, nextSub, now>>

SaveSubTaskRaciExisting(c) ==
  /\ calls[c].op = "saveSubTaskRaci" /\ calls[c].pc = "ssr_existing"
  /\ LET s == calls[c].subId
         u == calls[c].user
     IN calls' = [calls EXCEPT
          ![c].i = IF \E r \in SubRaciOf(db, s) : r.user_uuid = u THEN 1 ELSE 0,
          ![c].pc = "ssr_write"]
  /\ UNCHANGED <<db, events, nextTask, nextSub, now, requests>>

SaveSubTaskRaciWrite(c) ==
  /\ calls[c].op = "saveSubTaskRaci" /\ calls[c].pc = "ssr_write"
  /\ LET s == calls[c].subId
         u == calls[c].user
         l == calls[c].input.letter
         mine == {r \in db.subtask_raci : r.subtask_id = s /\ r.user_uuid = u}
         row == [subtask_id |-> s, user_uuid |-> u, letter |-> l]
     IN /\ ~SubRaciKeyLocked(c, {<<s, u>>})
        /\ IF calls[c].i = 1
           THEN /\ db' = [db EXCEPT !.subtask_raci =
                            (@ \ mine) \cup {[r EXCEPT !.letter = l] : r \in mine}]
                /\ calls' = [calls EXCEPT ![c].pc = "done", ![c].result = "success"]
           ELSE IF mine # {} \/ ~SubTaskExists(db, s)
           THEN /\ calls' = Fail(c, "insert subtask_raci", "")
                /\ UNCHANGED db
           ELSE /\ db' = [db EXCEPT !.subtask_raci = @ \cup {row}]
                /\ calls' = [calls EXCEPT ![c].pc = "done", ![c].result = "success"]
  /\ UNCHANGED <<events, nextTask, nextSub, now, requests>>

DeleteAllForTaskCall(c, taskId) ==
  /\ calls[c].pc = "idle"
  /\ requests < MaxRequests
  /\ requests' = requests + 1
  /\ calls' = [calls EXCEPT ![c] =
       [Idle EXCEPT !.op = "deleteAllForTask", !.pc = "dat_delete", !.taskId = taskId]]
  /\ UNCHANGED <<db, events, nextTask, nextSub, now>>

(* queryBuilder.where('task_id', taskId).delete() *)
DeleteAllForTaskDelete(c) ==
  /\ calls[c].op = "deleteAllForTask" /\ calls[c].pc = "dat_delete"
  /\ LET t == calls[c].taskId
     IN /\ \A r \in TaskRaciOf(db, t) : ~TaskRaciKeyLocked(c, t, r.user_uuid)
        /\ db' = [db EXCEPT !.task_raci = @ \ TaskRaciOf(db, t)]
        /\ calls' = [calls EXCEPT ![c].pc = "done", ![c].result = "success"]
  /\ UNCHANGED <<events, nextTask, nextSub, now, requests>>

DeleteAllForSubTaskCall(c, subtaskId) ==
  /\ calls[c].pc = "idle"
  /\ requests < MaxRequests
  /\ requests' = requests + 1
  /\ calls' = [calls EXCEPT ![c] =
       [Idle EXCEPT !.op = "deleteAllForSubTask", !.pc = "das_delete",
                    !.subId = subtaskId]]
  /\ UNCHANGED <<db, events, nextTask, nextSub, now>>

(* queryBuilder.where('subtask_id', subtaskId).delete() *)
DeleteAllForSubTaskDelete(c) ==
  /\ calls[c].op = "deleteAllForSubTask" /\ calls[c].pc = "das_delete"
  /\ LET s == calls[c].subId
     IN /\ db' = [db EXCEPT !.subtask_raci = @ \ SubRaciOf(db, s)]
        /\ calls' = [calls EXCEPT ![c].pc = "done", ![c].result = "success"]
  /\ UNCHANGED <<events, nextTask, nextSub, now, requests>>

(* copyFromTaskToSubTask(taskId, subtaskId) without a transaction of the  *)
(* caller: this.transaction(...) opens one                                 *)
CopyFromTaskToSubTaskCall(c, taskId, subtaskId) ==
  /\ calls[c].pc = "idle"
  /\ requests < MaxRequests
  /\ requests' = requests + 1
  /\ calls' = [calls EXCEPT ![c] =
       [Idle EXCEPT !.op = "copyFromTaskToSubTask", !.pc = "cp_read",
                    !.taskId = taskId, !.subId = subtaskId, !.inTx = TRUE]]
  /\ UNCHANGED <<db, events, nextTask, nextSub, now>>

(* trx('task_raci').where('task_id', taskId).select('*'); with no row the *)
(* method returns success at once                                          *)
CopyFromTaskToSubTaskRead(c) ==
  /\ calls[c].op = "copyFromTaskToSubTask" /\ calls[c].pc = "cp_read"
  /\ LET taskRacis == TaskRaciOf(View(c), calls[c].taskId)
     IN calls' = [calls EXCEPT ![c].rows = taskRacis,
                    ![c].pc = IF taskRacis = {} THEN "cp_commit" ELSE "cp_delete"]
  /\ UNCHANGED <<db, events, nextTask, nextSub, now, requests>>

(* trx('subtask_raci').where('subtask_id', subtaskId).delete() *)
CopyFromTaskToSubTaskDelete(c) ==
  /\ calls[c].op = "copyFromTaskToSubTask" /\ calls[c].pc = "cp_delete"
  /\ LET old == SubRaciOf(View(c), calls[c].subId)
     IN /\ ~SubRaciKeyLocked(c, {<<r.subtask_id, r.user_uuid>> : r \in old})
        /\ calls' = [calls EXCEPT
              ![c].ops = Append(@, [k |-> "del_subtask_raci", rows |-> old]),
              ![c].pc = "cp_insert"]
  /\ UNCHANGED <<db, events, nextTask, nextSub, now, requests>>

(* trx('subtask_raci').insert(subtaskRacis): one multi-row insert *)
CopyFromTaskToSubTaskInsert(c) ==
  /\ calls[c].op = "copyFromTaskToSubTask" /\ calls[c].pc = "cp_insert"
  /\ LET s == calls[c].subId
         copies == SubTaskRaciCopies(calls[c].rows, s)
         keys == {<<r.subtask_id, r.user_uuid>> : r \in copies}
     IN /\ ~SubRaciKeyLocked(c, keys)
        /\ IF ~SubTaskExists(View(c), s)
           THEN calls' = Fail(c, "foreign key subtask_raci", "")
           ELSE IF \E r \in SubRaciOf(View(c), s) : <<s, r.user_uuid>> \in keys
           THEN calls' = Fail(c, "duplicate key subtask_raci", "")
           ELSE calls' = [calls EXCEPT
                  ![c].ops = Append(@, [k |-> "ins_subtask_raci", rows |-> copies]),
                  ![c].pc = "cp_commit"]
  /\ UNCHANGED <<db, events, nextTask, nextSub, now, requests>>

(* ================ BaseKnexRepository.transaction: the end ============= *)
CommitPcs == {"ct_commit", "ut_commit", "cs_commit", "cp_commit"}

(* The callback's promise resolved: knex commits, the Result is returned   *)
TxCommit(c) ==
  /\ calls[c].pc \in CommitPcs
  /\ db' = ApplyAll(calls[c].ops, db)
  /\ calls' = [calls EXCEPT ![c].pc = "done", ![c].result = "success",
                            ![c].ops = <<>>, ![c].inTx = FALSE]
  /\ UNCHANGED <<events, nextTask, nextSub, now, requests>>

(* COMMIT is refused (connection lost, server error): db.transaction       *)
(* rejects, the catch block turns it into Result.failure                  *)
TxCommitFail(c) ==
  /\ calls[c].pc \in CommitPcs
  /\ calls' = Fail(c, "commit failed", "")
  /\ UNCHANGED <<db, events, nextTask, nextSub, now, requests>>

(* The caller has taken the Result: the slot is free for the next request *)
Return(c) ==
  /\ calls[c].pc = "done"
  /\ calls' = [calls EXCEPT ![c] = Idle]
  /\ UNCHANGED <<db, events, nextTask, nextSub, now, requests>>

(* new Date(): wall-clock time moves on, in milliseconds *)
Tick ==
  /\ now < MaxClock
  /\ now' = now + 1
  /\ UNCHANGED <<db, calls, events, nextTask, nextSub, requests>>

(* ----------------------------- the requests --------------------------- *)
NoRaci == [l \in {"R", "A", "C", "I"} |-> <<>>]

TaskInput(raci, profilesImpacted) ==
  [has |-> {"phaseCode", "title", "description", "priority", "ownerUuid", "raci",
            "profilesImpacted"},
   phaseCode |-> "M", title |-> "a", description |-> "", priority |-> 3,
   ownerUuid |-> "u1", raci |-> raci, profilesImpacted |-> profilesImpacted]

(* CreateTaskInput bodies: a well-formed one, one that lists a user under   *)
(* two letters, one that repeats a profile code, one with an unknown code  *)
CreateTaskInputs ==
  {TaskInput([NoRaci EXCEPT !["R"] = <<"u2">>], <<"TEC">>),
   TaskInput([NoRaci EXCEPT !["C"] = <<"u2">>], <<>>),
   TaskInput([NoRaci EXCEPT !["R"] = <<"u2">>, !["A"] = <<"u2">>], <<"TEC">>),
   TaskInput([NoRaci EXCEPT !["I"] = <<"u2">>], <<"TEC", "TEC">>),
   TaskInput(NoRaci, <<"TEC", "ZZZ", "YYY">>)}

(* UpdateTaskInput bodies *)
UpdateTaskInputs ==
  {[has |-> {"title"}, title |-> "b"],
   [has |-> {"phaseCode", "title", "raci"}, phaseCode |-> "E", title |-> "b",
    raci |-> [NoRaci EXCEPT !["A"] = <<"u2">>, !["I"] = <<"u2">>]],
   [has |-> {"raci", "profilesImpacted"},
    raci |-> [NoRaci EXCEPT !["C"] = <<"u1">>],
    profilesImpacted |-> <<"MAN">>],
   [has |-> {"profilesImpacted"}, profilesImpacted |-> <<>>]}

(* The authenticated callers: (userUuid, userRole) *)
Callers == {<<"u1", "USER">>, <<"u2", "USER">>, <<"u2", "CP">>}

SubTaskData == {[has |-> {"title"}, title |-> "s"]}

Owner == <<"u1", "USER">>

(* ------- requests and steps of the scenarios that are explored ------- *)
(* Permissions and transactions: createTask and updateTask by every caller *)
PermissionCall(c) ==
  \/ \E input \in CreateTaskInputs : CreateTaskCall(c, input, "u1")
  \/ \E t \in TaskIds, input \in UpdateTaskInputs, w \in Callers :
       UpdateTaskCall(c, t, input, w[1], w[2])

(* Progress: the owner adds subtasks, toggles them and renames the task *)
ProgressCall(c) ==
  \/ CreateTaskCall(c, TaskInput([NoRaci EXCEPT !["R"] = <<"u2">>], <<>>), "u1")
  \/ \E t \in TaskIds, data \in SubTaskData :
       CreateSubTaskCall(c, t, data, Owner[1], Owner[2])
  \/ \E s \in SubIds, done \in BOOLEAN :
       UpdateSubTaskStatusCall(c, s, done, Owner[1], Owner[2])
  \/ \E t \in TaskIds :
       UpdateTaskCall(c, t, [has |-> {"title"}, title |-> "b"], Owner[1], Owner[2])

(* RACI: task-level and subtask-level assignments and the copy between them *)
RaciCall(c) ==
  \/ \E input \in {TaskInput(NoRaci, <<>>),
                   TaskInput([NoRaci EXCEPT !["R"] = <<"u2">>], <<>>),
                   TaskInput([NoRaci EXCEPT !["R"] = <<"u2">>, !["A"] = <<"u2">>], <<>>),
                   TaskInput([NoRaci EXCEPT !["C"] = <<"u2", "u2">>], <<>>)} :
       CreateTaskCall(c, input, "u1")
  \/ \E t \in TaskIds, data \in SubTaskData :
       CreateSubTaskCall(c, t, data, Owner[1], Owner[2])
  \/ \E t \in TaskIds :
       UpdateTaskCall(c, t, [has |-> {"raci"},
                             raci |-> [NoRaci EXCEPT !["C"] = <<"u2">>, !["I"] = <<"u2">>]],
                      Owner[1], Owner[2])
  \/ \E t \in TaskIds :
       UpdateTaskCall(c, t, [has |-> {"raci"}, raci |-> [NoRaci EXCEPT !["A"] = <<"u1">>]],
                      Owner[1], Owner[2])
  \/ \E t \in TaskIds, l \in {"R", "I"} : SaveTaskRaciCall(c, t, "u2", l)
  \/ \E s \in SubIds, l \in {"A", "C"} : SaveSubTaskRaciCall(c, s, "u2", l)
  \/ \E t \in TaskIds : DeleteAllForTaskCall(c, t)
  \/ \E s \in SubIds : DeleteAllForSubTaskCall(c, s)

CreateTaskStep(c) ==
  \/ CreateTaskInsert(c)
  \/ CreateTaskReadBack(c)
  \/ CreateTaskRaci(c)
  \/ CreateTaskProfiles(c)
  \/ CreateTaskRespond(c)

CanModifyStep(c) ==
  \/ CanModifyTaskLoad(c)
  \/ CanModifyTaskRaci(c)

UpdateTaskStep(c) ==
  \/ UpdateTaskLoad(c)
  \/ UpdateTaskPhase(c)
  \/ UpdateTaskWrite(c)
  \/ UpdateTaskRaciDelete(c)
  \/ UpdateTaskRaciInsert(c)
  \/ UpdateTaskProfilesDelete(c)
  \/ UpdateTaskProfilesInsert(c)
  \/ UpdateTaskRespond(c)

CreateSubTaskStep(c) ==
  \/ CreateSubTaskLoad(c)
  \/ CreateSubTaskInsert(c)
  \/ CreateSubTaskReadBack(c)
  \/ CreateSubTaskReadRaci(c)
  \/ CreateSubTaskInsertRaci(c)
  \/ CreateSubTaskRespond(c)

UpdateSubTaskStatusStep(c) ==
  \/ UpdateSubTaskStatusLoad(c)
  \/ SubTaskSaveExists(c)
  \/ SubTaskSaveWrite(c)
  \/ SubTaskSaveFind(c)
  \/ UpdateSubTaskStatusRaci(c)
  \/ UpdateSubTaskStatusTask(c)

DeleteTaskStep(c) ==
  \/ DeleteTaskLoad(c)
  \/ DeleteTaskDelete(c)

RaciRepositoryStep(c) ==
  \/ SaveTaskRaciExisting(c)
  \/ SaveTaskRaciWrite(c)
  \/ SaveSubTaskRaciExisting(c)
  \/ SaveSubTaskRaciWrite(c)
  \/ DeleteAllForTaskDelete(c)
  \/ DeleteAllForSubTaskDelete(c)

Init ==
  /\ db = EmptyDb
  /\ calls = [c \in Calls |-> Idle]
  /\ events = {}
  /\ nextTask = 1
  /\ nextSub = 1
  /\ now = 0
  /\ requests = 0


TransactionEnd(c) ==
  \/ TxCommit(c)
  \/ TxCommitFail(c)

Next ==
  \/ \E c \in Calls : PermissionCall(c)
  \/ \E c \in Calls : CreateTaskStep(c)
  \/ \E c \in Calls : CanModifyStep(c)
  \/ \E c \in Calls : UpdateTaskStep(c)
  \/ \E c \in Calls : TransactionEnd(c)
  \/ \E c \in Calls : Return(c)
  \/ Tick

Spec == Init /\ [][Next]_vars

NextProgress ==
  \/ \E c \in Calls : ProgressCall(c)
  \/ \E c \in Calls : CreateTaskStep(c)
  \/ \E c \in Calls : CanModifyTaskLoad(c)
  \/ \E c \in Calls : UpdateTaskLoad(c) \/ UpdateTaskWrite(c) \/ UpdateTaskRespond(c)
  \/ \E c \in Calls : CreateSubTaskStep(c)
  \/ \E c \in Calls : UpdateSubTaskStatusStep(c)
  \/ \E c \in Calls : TransactionEnd(c)
  \/ \E c \in Calls : Return(c)
  \/ Tick

SpecProgress == Init /\ [][NextProgress]_vars

NextRaci ==
  \/ \E c \in Calls : RaciCall(c)
  \/ \E c \in Calls : CreateTaskStep(c)
  \/ \E c \in Calls : CanModifyTaskLoad(c)
  \/ \E c \in Calls : UpdateTaskLoad(c) \/ UpdateTaskWrite(c) \/ UpdateTaskRaciDelete(c)
                         \/ UpdateTaskRaciInsert(c) \/ UpdateTaskRespond(c)
  \/ \E c \in Calls : CreateSubTaskStep(c)
  \/ \E c \in Calls : RaciRepositoryStep(c)
  \/ \E c \in Calls : TransactionEnd(c)
  \/ \E c \in Calls : Return(c)
  \/ Tick

SpecRaci == Init /\ [][NextRaci]_vars

(* Deletion: the owner builds a task with a subtask and edits it while     *)
(* every caller tries to delete it                                         *)
DeletionCall(c) ==
  \/ CreateTaskCall(c, TaskInput([NoRaci EXCEPT !["R"] = <<"u2">>], <<"TEC">>), "u1")
  \/ \E t \in TaskIds, data \in SubTaskData :
       CreateSubTaskCall(c, t, data, Owner[1], Owner[2])
  \/ \E t \in TaskIds :
       UpdateTaskCall(c, t, [has |-> {"raci", "profilesImpacted"},
                             raci |-> [NoRaci EXCEPT !["C"] = <<"u1">>],
                             profilesImpacted |-> <<"MAN">>],
                      Owner[1], Owner[2])
  \/ \E t \in TaskIds, w \in Callers : DeleteTaskCall(c, t, w[1], w[2])

NextDeletion ==
  \/ \E c \in Calls : DeletionCall(c)
  \/ \E c \in Calls : CreateTaskStep(c)
  \/ \E c \in Calls : CanModifyTaskLoad(c)
  \/ \E c \in Calls : UpdateTaskLoad(c) \/ UpdateTaskWrite(c) \/ UpdateTaskRaciDelete(c)
                         \/ UpdateTaskRaciInsert(c) \/ UpdateTaskProfilesDelete(c)
                         \/ UpdateTaskProfilesInsert(c) \/ UpdateTaskRespond(c)
  \/ \E c \in Calls : CreateSubTaskStep(c)
  \/ \E c \in Calls : DeleteTaskStep(c)
  \/ \E c \in Calls : TransactionEnd(c)
  \/ \E c \in Calls : Return(c)
  \/ Tick

SpecDeletion == Init /\ [][NextDeletion]_vars

(* Validation: updateTask bodies in which one field is rejected by the      *)
(* entity, after fields that were accepted, one body that is accepted, and  *)
(* one that names a profile code absent from the catalog                    *)
ValidateInputs ==
  {[has |-> {"title", "priority"}, title |-> "b", priority |-> 9],
   [has |-> {"title"}, title |-> " "],
   [has |-> {"title", "phaseCode"}, title |-> "b", phaseCode |-> "X"],
   [has |-> {"priority", "ownerUuid"}, priority |-> 2, ownerUuid |-> "not-a-uuid"],
   [has |-> {"description", "plannedStart", "plannedEnd", "raci", "profilesImpacted"},
    description |-> "d", plannedStart |-> 2, plannedEnd |-> 1,
    raci |-> [NoRaci EXCEPT !["C"] = <<"u1">>], profilesImpacted |-> <<"MAN">>],
   [has |-> {"title", "priority", "plannedStart", "plannedEnd", "raci",
             "profilesImpacted"},
    title |-> "b", priority |-> 2, plannedStart |-> 1, plannedEnd |-> 2,
    raci |-> [NoRaci EXCEPT !["C"] = <<"u1">>], profilesImpacted |-> <<"MAN">>],
   [has |-> {"title", "profilesImpacted"}, title |-> "b",
    profilesImpacted |-> <<"MAN", "ZZZ">>]}

ValidateCall(c) ==
  \/ \E input \in {TaskInput([NoRaci EXCEPT !["R"] = <<"u2">>], <<"TEC">>),
                   TaskInput(NoRaci, <<"TEC", "ZZZ">>)} :
       CreateTaskCall(c, input, "u1")
  \/ \E t \in TaskIds, input \in ValidateInputs, w \in {<<"u1", "USER">>, <<"u2", "USER">>} :
       UpdateTaskCall(c, t, input, w[1], w[2])

NextValidate ==
  \/ \E c \in Calls : ValidateCall(c)
  \/ \E c \in Calls : CreateTaskStep(c)
  \/ \E c \in Calls : CanModifyStep(c)
  \/ \E c \in Calls : UpdateTaskStep(c)
  \/ \E c \in Calls : TransactionEnd(c)
  \/ \E c \in Calls : Return(c)
  \/ Tick

SpecValidate == Init /\ [][NextValidate]_vars

(* Reads: the owner creates a task and a subtask, toggles it and reads the *)
(* task with its details, while any query of the read path may fail       *)
DetailsCall(c) ==
  \/ CreateTaskCall(c, TaskInput([NoRaci EXCEPT !["R"] = <<"u2">>], <<"TEC">>), "u1")
  \/ \E t \in TaskIds, data \in SubTaskData :
       CreateSubTaskCall(c, t, data, Owner[1], Owner[2])
  \/ \E s \in SubIds : UpdateSubTaskStatusCall(c, s, TRUE, Owner[1], Owner[2])
  \/ \E t \in TaskIds : GetTaskWithDetailsCall(c, t)

GetTaskWithDetailsStep(c) ==
  \/ GetTaskWithDetailsTask(c)
  \/ GetTaskWithDetailsRaci(c)
  \/ GetTaskWithDetailsSubTasks(c)
  \/ GetTaskWithDetailsProfiles(c)

NextDetails ==
  \/ \E c \in Calls : DetailsCall(c)
  \/ \E c \in Calls : CreateTaskStep(c)
  \/ \E c \in Calls : CanModifyTaskLoad(c)
  \/ \E c \in Calls : CreateSubTaskStep(c)
  \/ \E c \in Calls : UpdateSubTaskStatusStep(c)
  \/ \E c \in Calls : GetTaskWithDetailsStep(c)
  \/ \E c \in Calls : TransactionEnd(c)
  \/ \E c \in Calls : Return(c)

SpecDetails == Init /\ [][NextDetails]_vars

(* Soft lock: u1 creates a task on which u2 is Responsible; both lock and  *)
(* unlock it and rename it                                                 *)
LockCall(c) ==
  \/ CreateTaskCall(c, TaskInput([NoRaci EXCEPT !["R"] = <<"u2">>], <<"TEC">>), "u1")
  \/ \E t \in TaskIds, u \in Users : LockTaskForEditing(c, t, u)
  \/ \E t \in TaskIds : UnlockTaskAfterEditing(c, t)
  \/ \E t \in TaskIds, u \in Users :
       UpdateTaskCall(c, t, [has |-> {"title"}, title |-> "b"], u, "USER")

NextLock ==
  \/ \E c \in Calls : LockCall(c)
  \/ \E c \in Calls : CreateTaskStep(c)
  \/ \E c \in Calls : CanModifyStep(c)
  \/ \E c \in Calls : UpdateTaskLoad(c) \/ UpdateTaskWrite(c) \/ UpdateTaskRespond(c)
  \/ \E c \in Calls : TransactionEnd(c)
  \/ \E c \in Calls : Return(c)

SpecLock == Init /\ [][NextLock]_vars

(* Partial updates: the owner creates a task and a subtask, then sends     *)
(* bodies that each name one part of the task                              *)
PartialInputs ==
  {[has |-> {"plannedStart", "plannedEnd"}, plannedStart |-> 1, plannedEnd |-> 2],
   [has |-> {"plannedStart"}, plannedStart |-> 2],
   [has |-> {"title"}, title |-> "b"],
   [has |-> {"priority"}, priority |-> 2],
   [has |-> {"raci"}, raci |-> [NoRaci EXCEPT !["C"] = <<"u1">>]],
   [has |-> {"profilesImpacted"}, profilesImpacted |-> <<"MAN">>]}

PartialCall(c) ==
  \/ CreateTaskCall(c, TaskInput([NoRaci EXCEPT !["R"] = <<"u2">>], <<"TEC">>), "u1")
  \/ \E t \in TaskIds, data \in SubTaskData :
       CreateSubTaskCall(c, t, data, Owner[1], Owner[2])
  \/ \E t \in TaskIds, input \in PartialInputs :
       UpdateTaskCall(c, t, input, Owner[1], Owner[2])

NextPartial ==
  \/ \E c \in Calls : PartialCall(c)
  \/ \E c \in Calls : CreateTaskStep(c)
  \/ \E c \in Calls : CanModifyTaskLoad(c)
  \/ \E c \in Calls : CreateSubTaskStep(c)
  \/ \E c \in Calls : UpdateTaskLoad(c) \/ UpdateTaskWrite(c) \/ UpdateTaskRaciDelete(c)
                          \/ UpdateTaskRaciInsert(c) \/ UpdateTaskProfilesDelete(c)
                          \/ UpdateTaskProfilesInsert(c) \/ UpdateTaskRespond(c)
  \/ \E c \in Calls : TransactionEnd(c)
  \/ \E c \in Calls : Return(c)

SpecPartial == Init /\ [][NextPartial]_vars

(* Takeover: u1 creates and owns a task on which u2 is Responsible; every  *)
(* later call is made by u2, an ordinary user                              *)
TakeoverCall(c) ==
  \/ CreateTaskCall(c, TaskInput([NoRaci EXCEPT !["R"] = <<"u2">>], <<"TEC">>), "u1")
  \/ \E t \in TaskIds, input \in {[has |-> {"ownerUuid"}, ownerUuid |-> "u2"],
                                   [has |-> {"phaseCode"}, phaseCode |-> "E"]} :
       UpdateTaskCall(c, t, input, "u2", "USER")
  \/ \E t \in TaskIds, data \in SubTaskData : CreateSubTaskCall(c, t, data, "u2", "USER")
  \/ \E s \in SubIds : UpdateSubTaskStatusCall(c, s, TRUE, "u2", "USER")
  \/ \E t \in TaskIds : DeleteTaskCall(c, t, "u2", "USER")

NextTakeover ==
  \/ \E c \in Calls : TakeoverCall(c)
  \/ \E c \in Calls : CreateTaskStep(c)
  \/ \E c \in Calls : CanModifyStep(c)
  \/ \E c \in Calls : UpdateTaskLoad(c) \/ UpdateTaskPhase(c) \/ UpdateTaskWrite(c)
                          \/ UpdateTaskRespond(c)
  \/ \E c \in Calls : CreateSubTaskStep(c)
  \/ \E c \in Calls : UpdateSubTaskStatusStep(c)
  \/ \E c \in Calls : DeleteTaskStep(c)
  \/ \E c \in Calls : TransactionEnd(c)
  \/ \E c \in Calls : Return(c)

SpecTakeover == Init /\ [][NextTakeover]_vars

(* RACI copy: the owner creates a task with two RACI rows, replaces both   *)
(* and adds subtasks meanwhile                                             *)
OldRaci == [NoRaci EXCEPT !["R"] = <<"u2">>, !["I"] = <<"u1">>]
NewRaci == [NoRaci EXCEPT !["A"] = <<"u2">>, !["C"] = <<"u1">>]

CopyCall(c) ==
  \/ CreateTaskCall(c, TaskInput(OldRaci, <<>>), "u1")
  \/ \E t \in TaskIds :
       UpdateTaskCall(c, t, [has |-> {"raci"}, raci |-> NewRaci], Owner[1], Owner[2])
  \/ \E t \in TaskIds, data \in SubTaskData :
       CreateSubTaskCall(c, t, data, Owner[1], Owner[2])

NextCopy ==
  \/ \E c \in Calls : CopyCall(c)
  \/ \E c \in Calls : CreateTaskStep(c)
  \/ \E c \in Calls : CanModifyTaskLoad(c)
  \/ \E c \in Calls : UpdateTaskLoad(c) \/ UpdateTaskWrite(c) \/ UpdateTaskRaciDelete(c)
                          \/ UpdateTaskRaciInsert(c) \/ UpdateTaskRespond(c)
  \/ \E c \in Calls : CreateSubTaskStep(c)
  \/ \E c \in Calls : TransactionEnd(c)
  \/ \E c \in Calls : Return(c)
  \/ Tick

SpecCopy == Init /\ [][NextCopy]_vars

(* Repository copy: tasks with and without RACI rows get a subtask, a row  *)
(* is saved on the subtask, and the task's set is copied to the subtask    *)
RepositoryCopyCall(c) ==
  \/ \E input \in {TaskInput(NoRaci, <<>>),
                    TaskInput([NoRaci EXCEPT !["R"] = <<"u2">>], <<>>)} :
       CreateTaskCall(c, input, "u1")
  \/ \E t \in TaskIds, data \in SubTaskData :
       CreateSubTaskCall(c, t, data, Owner[1], Owner[2])
  \/ \E s \in SubIds : SaveSubTaskRaciCall(c, s, "u1", "A")
  \/ \E t \in TaskIds, s \in SubIds : CopyFromTaskToSubTaskCall(c, t, s)

NextRepositoryCopy ==
  \/ \E c \in Calls : RepositoryCopyCall(c)
  \/ \E c \in Calls : CreateTaskStep(c)
  \/ \E c \in Calls : CanModifyTaskLoad(c)
  \/ \E c \in Calls : CreateSubTaskStep(c)
  \/ \E c \in Calls : SaveSubTaskRaciExisting(c) \/ SaveSubTaskRaciWrite(c)
  \/ \E c \in Calls : CopyFromTaskToSubTaskRead(c) \/ CopyFromTaskToSubTaskDelete(c)
                          \/ CopyFromTaskToSubTaskInsert(c)
  \/ \E c \in Calls : TransactionEnd(c)
  \/ \E c \in Calls : Return(c)

SpecRepositoryCopy == Init /\ [][NextRepositoryCopy]_vars

(* Twin tasks: the same creator submits the same body twice, then replaces *)
(* the RACI set and the profile associations of either task                *)
TwinCall(c) ==
  \/ \E input \in {TaskInput([NoRaci EXCEPT !["R"] = <<"u2">>], <<"TEC">>),
                    TaskInput([NoRaci EXCEPT !["C"] = <<"u1">>], <<>>)} :
       CreateTaskCallUpTo(c, input, "u1", MaxTwinTasks)
  \/ \E t \in 1..MaxTwinTasks :
       UpdateTaskCall(c, t, [has |-> {"raci", "profilesImpacted"},
                             raci |-> [NoRaci EXCEPT !["C"] = <<"u1">>],
                             profilesImpacted |-> <<"MAN">>], Owner[1], Owner[2])

NextTwin ==
  \/ \E c \in Calls : TwinCall(c)
  \/ \E c \in Calls : CreateTaskStep(c)
  \/ \E c \in Calls : CanModifyTaskLoad(c)
  \/ \E c \in Calls : UpdateTaskLoad(c) \/ UpdateTaskWrite(c) \/ UpdateTaskRaciDelete(c)
                          \/ UpdateTaskRaciInsert(c) \/ UpdateTaskProfilesDelete(c)
                          \/ UpdateTaskProfilesInsert(c) \/ UpdateTaskRespond(c)
  \/ \E c \in Calls : TransactionEnd(c)
  \/ \E c \in Calls : Return(c)
  \/ Tick

SpecTwin == Init /\ [][NextTwin]_vars

(* Subtask authorisation: u2 is Responsible on the task, adds a subtask,    *)
(* the owner then replaces the task's RACI set, and both toggle subtasks    *)
SubAuthCall(c) ==
  \/ CreateTaskCall(c, TaskInput([NoRaci EXCEPT !["R"] = <<"u2">>], <<>>), "u1")
  \/ \E t \in TaskIds, data \in SubTaskData, w \in {<<"u1", "USER">>, <<"u2", "USER">>} :
       CreateSubTaskCall(c, t, data, w[1], w[2])
  \/ \E t \in TaskIds :
       UpdateTaskCall(c, t, [has |-> {"raci"}, raci |-> [NoRaci EXCEPT !["C"] = <<"u2">>]],
                      Owner[1], Owner[2])
  \/ \E s \in SubIds, w \in {<<"u2", "USER">>, <<"u2", "RF">>} :
       UpdateSubTaskStatusCall(c, s, TRUE, w[1], w[2])

NextSubAuth ==
  \/ \E c \in Calls : SubAuthCall(c)
  \/ \E c \in Calls : CreateTaskStep(c)
  \/ \E c \in Calls : CanModifyStep(c)
  \/ \E c \in Calls : UpdateTaskLoad(c) \/ UpdateTaskWrite(c) \/ UpdateTaskRaciDelete(c)
                          \/ UpdateTaskRaciInsert(c) \/ UpdateTaskRespond(c)
  \/ \E c \in Calls : CreateSubTaskStep(c)
  \/ \E c \in Calls : UpdateSubTaskStatusStep(c)
  \/ \E c \in Calls : TransactionEnd(c)
  \/ \E c \in Calls : Return(c)
  \/ Tick

SpecSubAuth == Init /\ [][NextSubAuth]_vars

(* The Task entity on its own: Task.create on arbitrary props, then any     *)
(* sequence of its update* methods, accepted or rejected                    *)
EntityTitles == {"a", "b", " ", ""}
EntityPhases == {"M", "E", "X", ""}
EntityPriorities == {0, 1, 3, 6, NaN}
EntityProgress == {0 - 1, 0, 5000, 10000, 10001, NaN}
EntityDates == {NoDate, 1, 2, NaN}
EntityOwners == {"u1", "not-a-uuid", NULL}

TaskCreate(c, props) ==
  /\ calls[c].pc = "idle"
  /\ LET err == TaskCreateError(props)
     IN calls' = [calls EXCEPT ![c] =
          IF err # "ok" THEN FailRec([Idle EXCEPT !.op = "Task"], err, "")
          ELSE [Idle EXCEPT !.op = "Task", !.pc = "entity", !.ent = props,
                            !.result = "success"]]
  /\ UNCHANGED <<db, events, nextTask, nextSub, now, requests>>

(* One update* method is called on the entity; its Result is kept *)
TaskSetter(c, r) ==
  /\ calls[c].op = "Task" /\ calls[c].pc = "entity"
  /\ calls' = [calls EXCEPT ![c].ent = r[2],
                            ![c].result = IF r[1] = "ok" THEN "success" ELSE "failure",
                            ![c].error = IF r[1] = "ok" THEN <<"none", "">> ELSE <<r[1], "">>]
  /\ UNCHANGED <<db, events, nextTask, nextSub, now, requests>>

TaskUpdateTitle(c) == \E v \in EntityTitles : TaskSetter(c, updateTitle(calls[c].ent, v))
TaskUpdateDescription(c) ==
  \E v \in {"", "d"} : TaskSetter(c, updateDescription(calls[c].ent, v))
TaskUpdatePriority(c) ==
  \E v \in EntityPriorities : TaskSetter(c, updatePriority(calls[c].ent, v))
TaskUpdatePhase(c) == \E v \in EntityPhases : TaskSetter(c, updatePhase(calls[c].ent, v))
TaskUpdateOwner(c) == \E v \in EntityOwners : TaskSetter(c, updateOwner(calls[c].ent, v))
TaskUpdateProgress(c) ==
  \E v \in EntityProgress : TaskSetter(c, updateProgress(calls[c].ent, v))
TaskUpdatePlannedDates(c) ==
  \E start, end \in EntityDates :
     TaskSetter(c, updatePlannedDates(calls[c].ent, start, end))

NextEntity ==
  \/ \E title \in EntityTitles, phaseCode \in EntityPhases, priority \in EntityPriorities,
        progress \in EntityProgress, start, end \in EntityDates, ownerUuid \in EntityOwners :
       TaskCreate(1, [id |-> 1, phaseCode |-> phaseCode, title |-> title,
                      description |-> "", priority |-> priority, ownerUuid |-> ownerUuid,
                      progress |-> progress, createdBy |-> "u1", createdAt |-> now,
                      plannedStart |-> start, plannedEnd |-> end])
  \/ TaskUpdateTitle(1)
  \/ TaskUpdateDescription(1)
  \/ TaskUpdatePriority(1)
  \/ TaskUpdatePhase(1)
  \/ TaskUpdateOwner(1)
  \/ TaskUpdateProgress(1)
  \/ TaskUpdatePlannedDates(1)
  \/ Return(1)

SpecEntity == Init /\ [][NextEntity]_vars

(* Setters on valid entities while the clock moves: a Task, a SubTask and  *)
(* a Raci are built, then any setter is called with any argument           *)
SubTaskCreate(c, props) ==
  /\ calls[c].pc = "idle"
  /\ calls' = [calls EXCEPT ![c] =
       IF TitleIsBlank(props.title)
       THEN FailRec([Idle EXCEPT !.op = "SubTask"], "SubTask title is required", "")
       ELSE [Idle EXCEPT !.op = "SubTask", !.pc = "entity", !.ent = props,
                         !.result = "success"]]
  /\ UNCHANGED <<db, events, nextTask, nextSub, now, requests>>

RaciCreate(c, props) ==
  /\ calls[c].pc = "idle"
  /\ calls' = [calls EXCEPT ![c] =
       IF ~RaciLetterIsValid(props.letter)
       THEN FailRec([Idle EXCEPT !.op = "Raci"], "Invalid RACI letter", "")
       ELSE [Idle EXCEPT !.op = "Raci", !.pc = "entity", !.ent = props,
                         !.result = "success"]]
  /\ UNCHANGED <<db, events, nextTask, nextSub, now, requests>>

(* One setter of a SubTask or of a Raci is called; its Result is kept *)
EntitySetter(c, op, r) ==
  /\ calls[c].op = op /\ calls[c].pc = "entity"
  /\ calls' = [calls EXCEPT ![c].ent = r[2],
                            ![c].result = IF r[1] = "ok" THEN "success" ELSE "failure",
                            ![c].error = IF r[1] = "ok" THEN <<"none", "">> ELSE <<r[1], "">>]
  /\ UNCHANGED <<db, events, nextTask, nextSub, now, requests>>

NextSetters ==
  \/ \E title \in {"a", ""}, priority \in {1, 3}, start \in {NoDate, 1} :
       TaskCreate(1, [id |-> 1, phaseCode |-> "M", title |-> title,
                      description |-> "", priority |-> priority, ownerUuid |-> "u1",
                      progress |-> 0, createdBy |-> "u1", createdAt |-> now,
                      updatedAt |-> now, plannedStart |-> start, plannedEnd |-> NoDate])
  \/ \E title \in {"a", " "} :
       SubTaskCreate(1, [id |-> 1, taskId |-> 1, title |-> title, completed |-> FALSE,
                         createdBy |-> "u1", createdAt |-> now, updatedAt |-> now])
  \/ \E letter \in {"R", "Z"} :
       RaciCreate(1, [entityId |-> 1, userUuid |-> "u1", letter |-> letter])
  \/ TaskUpdateTitle(1)
  \/ TaskUpdateDescription(1)
  \/ TaskUpdatePriority(1)
  \/ TaskUpdatePhase(1)
  \/ TaskUpdateOwner(1)
  \/ TaskUpdateProgress(1)
  \/ TaskUpdatePlannedDates(1)
  \/ \E v \in EntityTitles :
       EntitySetter(1, "SubTask", SubTaskUpdateTitle(calls[1].ent, v))
  \/ \E v \in {"R", "A", "X", ""} :
       EntitySetter(1, "Raci", RaciUpdateLetter(calls[1].ent, v))
  \/ Return(1)
  \/ Tick

SpecSetters == Init /\ [][NextSetters]_vars

(* ======================================================================= *)
(*                              Properties                                 *)
(* ======================================================================= *)
TransactionalOps == {"createTask", "updateTask", "createSubTask"}

(* The call c takes this step and emits an event in it *)
Emits(c) == ~(calls'[c].emitted \subseteq calls[c].emitted)

(* C1: for createTask, updateTask and createSubTask the event of a mutation *)
(* is emitted strictly after the mutation's transaction has committed: no   *)
(* emit step occurs while the call's transaction is still open.             *)
C1_EmitAfterCommit ==
  [][\A c \in Calls :
       (calls[c].op \in TransactionalOps /\ Emits(c)) => ~calls[c].inTx]_vars

(* The rows of the store that belong to task t *)
RowsOfTask(d, t) ==
  <<TaskExists(d, t), TaskRaciOf(d, t), {r \in d.task_profile : r.task_id = t}>>

(* C2: createTask is atomic: when a step inside its transaction fails (a    *)
(* RACI insertion partway, the profile insertion, the commit itself), no    *)
(* task row, task RACI row or profile row of the call is in the store, the  *)
(* call returns a failure and no "task created" event has been emitted.     *)
C2_CreateTaskAtomic ==
  \A c \in Calls :
    (calls[c].op = "createTask" /\ calls[c].pc = "done" /\ calls[c].newId # 0
       /\ calls[c].result = "failure")
    => /\ RowsOfTask(db, calls[c].newId) = <<FALSE, {}, {}>>
       /\ "task:created" \notin calls[c].emitted

(* C3: after every successful updateSubTaskStatus on a subtask of task T,   *)
(* T's stored progress equals round(100 * completed / total) over T's       *)
(* subtasks (total > 0).                                                    *)
C3_ProgressAfterToggle ==
  \A c \in Calls :
    (calls[c].op = "updateSubTaskStatus" /\ calls[c].pc = "done"
       /\ calls[c].result = "success" /\ TaskExists(db, calls[c].taskId)
       /\ SubTasksOf(db, calls[c].taskId) # {})
    => db.task[calls[c].taskId].progress = calculateTaskProgress(db, calls[c].taskId)

Quiescent == \A c \in Calls : calls[c].pc \in {"idle", "done"}

(* C4: progress is never set by a client update: in every interleaving of   *)
(* updateTask with updateSubTaskStatus calls on the same task, once all     *)
(* calls have completed the stored progress is the value derived from the   *)
(* subtask completion ratio.                                                *)
C4_ProgressNeverClientSet ==
  Quiescent =>
    \A t \in DOMAIN db.task :
      SubTasksOf(db, t) # {} =>
        db.task[t].progress
          = Round2(Cardinality(CompletedOf(db, t)), Cardinality(SubTasksOf(db, t)))

(* C5: immediately after a successful createSubTask on a parent whose RACI  *)
(* set has N rows, the new subtask's RACI set is exactly those N (user,     *)
(* letter) pairs: at the commit of the call, the rows of the subtask it     *)
(* inserted are the copies of the parent rows it read.                      *)
C5_SubTaskRaciIsCopy ==
  [][\A c \in Calls :
       (calls[c].op = "createSubTask" /\ calls[c].pc = "cs_commit"
          /\ calls'[c].pc = "done" /\ calls'[c].result = "success")
       => Pairs(SubRaciOf(db', calls[c].newId)) = Pairs(calls[c].rows)]_vars

SubTaskRaciOps == {"saveSubTaskRaci", "deleteAllForSubTask"}
TaskRaciOps == {"saveTaskRaci", "deleteAllForTask", "updateTask"}

(* The call c takes this step *)
Steps(c) == calls'[c] # calls[c]

(* C6: task-level and subtask-level RACI sets are independent after the     *)
(* copy: no step of saveSubTaskRaci / deleteAllForSubTask changes the RACI  *)
(* set of any task, and no step of saveTaskRaci / deleteAllForTask /        *)
(* updateTask (its RACI replacement and commit included) changes the RACI   *)
(* set of any subtask.                                                      *)
C6_RaciSetsIndependent ==
  [][\A c \in Calls :
       Steps(c) =>
         /\ calls[c].op \in SubTaskRaciOps =>
              \A t \in TaskIds : TaskRaciOf(db', t) = TaskRaciOf(db, t)
         /\ calls[c].op \in TaskRaciOps =>
              \A s \in SubIds : Pairs(SubRaciOf(db', s)) = Pairs(SubRaciOf(db, s))]_vars

(* A subtask keeps its copied rows after its parent's set has been emptied *)
C6_Witness ==
  \E c \in Calls, s \in DOMAIN db.subtask :
    /\ calls[c].op = "deleteAllForTask" /\ calls[c].result = "success"
    /\ TaskRaciOf(db, db.subtask[s].task_id) = {}
    /\ SubRaciOf(db, s) # {}

(* No two rows of one table for the same (entity, user) *)
OneLetterPerPair(d) ==
  /\ \A r1, r2 \in d.task_raci :
       (r1.task_id = r2.task_id /\ r1.user_uuid = r2.user_uuid) => r1 = r2
  /\ \A r1, r2 \in d.subtask_raci :
       (r1.subtask_id = r2.subtask_id /\ r1.user_uuid = r2.user_uuid) => r1 = r2

(* C7: in every reachable state each (task, user) and each (subtask, user)  *)
(* pair has at most one RACI letter, in the store and in what every open    *)
(* transaction sees; a successful saveTaskRaci / saveSubTaskRaci on an      *)
(* existing pair leaves the number of rows unchanged and the pair with the  *)
(* new letter only.                                                         *)
C7_OneLetterPerPair ==
  /\ [](OneLetterPerPair(db) /\ \A c \in Calls : OneLetterPerPair(View(c)))
  /\ [][\A c \in Calls :
          /\ (calls[c].pc = "str_write" /\ calls'[c].result = "success") =>
               /\ \A r \in TaskRaciOf(db', calls[c].taskId) :
                    r.user_uuid = calls[c].user => r.letter = calls[c].input.letter
               /\ calls[c].i = 1 => Cardinality(db'.task_raci) = Cardinality(db.task_raci)
          /\ (calls[c].pc = "ssr_write" /\ calls'[c].result = "success") =>
               /\ \A r \in SubRaciOf(db', calls[c].subId) :
                    r.user_uuid = calls[c].user => r.letter = calls[c].input.letter
               /\ calls[c].i = 1 =>
                    Cardinality(db'.subtask_raci) = Cardinality(db.subtask_raci)]_vars

(* saveTaskRaci has replaced the letter of an existing pair while an       *)
(* updateTask that listed one user under two letters was rejected          *)
C7_Witness ==
  \E c, o \in Calls :
    /\ calls[c].op = "saveTaskRaci" /\ calls[c].pc = "done" /\ calls[c].i = 1
    /\ calls[c].result = "success"
    /\ [task_id |-> calls[c].taskId, user_uuid |-> calls[c].user,
        letter |-> calls[c].input.letter] \in db.task_raci
    /\ calls[o].op = "updateTask" /\ calls[o].error[1] = "duplicate key task_raci"

Roles == ElevatedRoles \cup {"USER"}

(* u is not the owner of t and holds letter C or I, or no row, on t *)
OnlyConsultedOrInformed(d, t, u) ==
  /\ t \in DOMAIN d.task /\ d.task[t].owner_uuid # u
  /\ \A r \in d.task_raci :
       (r.task_id = t /\ r.user_uuid = u) => r.letter \in {"C", "I"}

(* u is not the owner of t and holds letter R or A on t *)
OnlyResponsibleOrAccountable(d, t, u) ==
  /\ t \in DOMAIN d.task /\ d.task[t].owner_uuid # u
  /\ \E r \in d.task_raci :
       r.task_id = t /\ r.user_uuid = u /\ r.letter \in {"R", "A"}

PreTransactionPcs == {"ut_load", "can_task", "can_raci", "ut_phase"}

(* C8: canModifyTask returns success(false) for every user whose role is    *)
(* not CP or RF, who is not the task's owner and whose letter on the task   *)
(* is C or I (or who has no row); updateTask by such a user fails with a    *)
(* forbidden error at the RACI lookup, and no step of the call up to there  *)
(* changes the store, opens a transaction or emits an event.                *)
C8_ConsultedInformedDenied ==
  /\ [](\A t \in TaskIds, u \in Users :
          OnlyConsultedOrInformed(db, t, u) =>
            canModifyTask(db, t, u, "USER") = <<"success", FALSE>>)
  /\ [][\A c \in Calls :
          (calls[c].op = "updateTask" /\ Steps(c) /\ calls[c].pc \in PreTransactionPcs) =>
            /\ db' = db /\ events' = events /\ calls[c].ops = <<>>
            /\ (calls[c].pc = "can_raci"
                  /\ OnlyConsultedOrInformed(db, calls[c].taskId, calls[c].user)) =>
                 /\ calls'[c].pc = "done" /\ calls'[c].result = "failure"
                 /\ calls'[c].error[1] = "Forbidden"
                 /\ calls'[c].emitted = {} /\ ~calls'[c].inTx]_vars

(* A user holding only letter C was refused by updateTask *)
C8_Witness ==
  \E c \in Calls :
    /\ calls[c].op = "updateTask" /\ calls[c].pc = "done"
    /\ calls[c].error = <<"Forbidden", "needs R or A or be owner/CP/RF">>
    /\ [task_id |-> calls[c].taskId, user_uuid |-> calls[c].user, letter |-> "C"]
         \in db.task_raci
    /\ db.task[calls[c].taskId].title = "a"

(* C9: for every task and every user with letter R or A on it who is        *)
(* neither its owner nor CP/RF, canChangePhase returns success(false) while *)
(* canModifyTask returns success(true); canChangePhase returns true         *)
(* exactly when the role is CP or RF or the user is the task's owner.       *)
C9_PhaseGateStricter ==
  \A t \in TaskIds, u \in Users :
    /\ OnlyResponsibleOrAccountable(db, t, u) =>
         /\ canChangePhase(db, t, u, "USER") = <<"success", FALSE>>
         /\ canModifyTask(db, t, u, "USER") = <<"success", TRUE>>
    /\ \A role \in Roles :
         (canChangePhase(db, t, u, role) = <<"success", TRUE>>)
           <=> (role \in ElevatedRoles
                  \/ (t \in DOMAIN db.task /\ db.task[t].owner_uuid = u))

(* The same R-holder is inside updateTask's transaction with one request   *)
(* and was refused the phase change with another                           *)
C9_Witness ==
  \E c, o \in Calls :
    /\ calls[c].op = "updateTask" /\ calls[o].op = "updateTask"
    /\ calls[c].user = calls[o].user /\ calls[c].role = "USER" /\ calls[o].role = "USER"
    /\ OnlyResponsibleOrAccountable(db, calls[c].taskId, calls[c].user)
    /\ calls[c].taskId = calls[o].taskId
    /\ calls[c].pc = "ut_commit"
    /\ calls[o].error = <<"Forbidden", "needs to be owner, CP or RF">>

(* C10: an updateTask call whose input changes phaseCode (against the task  *)
(* it loaded), issued by a user who is neither CP/RF nor the owner, never   *)
(* opens its transaction: it persists nothing, emits nothing, and is        *)
(* answered with a forbidden failure by the phase gate.                     *)
C10_PhaseChangeRefused ==
  [][\A c \in Calls :
       (/\ calls[c].op = "updateTask" /\ Steps(c)
        /\ calls[c].pc \in {"can_task", "can_raci", "ut_phase"}
        /\ calls[c].role \notin ElevatedRoles
        /\ PhaseChanges(calls[c].ent, calls[c].input)
        /\ calls[c].taskId \in DOMAIN db.task
        /\ db.task[calls[c].taskId].owner_uuid # calls[c].user)
       => /\ db' = db /\ events' = events
          /\ ~calls'[c].inTx /\ calls'[c].ops = <<>> /\ calls'[c].emitted = {}
          /\ calls[c].pc = "ut_phase" =>
               /\ calls'[c].pc = "done" /\ calls'[c].result = "failure"
               /\ calls'[c].error[1] = "Forbidden"]_vars

(* An R-holder asked for a new phase and a new title: refused, and the     *)
(* stored task still has its phase and title                               *)
C10_Witness ==
  \E c \in Calls :
    /\ calls[c].op = "updateTask" /\ calls[c].pc = "done"
    /\ calls[c].error = <<"Forbidden", "needs to be owner, CP or RF">>
    /\ {"phaseCode", "title"} \subseteq calls[c].input.has
    /\ OnlyResponsibleOrAccountable(db, calls[c].taskId, calls[c].user)
    /\ db.task[calls[c].taskId].phase_code # calls[c].input.phaseCode
    /\ db.task[calls[c].taskId].title # calls[c].input.title
    /\ \A e \in events : e.type # "task:updated"

(* C11: deleteTask removes a task only when the caller's role is CP or RF   *)
(* or the caller is the owner of the task it loaded; any other caller, a    *)
(* holder of R or A included, is answered with a forbidden failure by the   *)
(* step that loads the task, which changes no row and emits nothing; a task *)
(* row disappears only in the delete step of such a permitted call.         *)
C11_DeleteNeedsOwnerOrElevated ==
  /\ [](\A c \in Calls :
          (calls[c].op = "deleteTask" /\ calls[c].pc = "dt_delete") =>
            (calls[c].role \in ElevatedRoles \/ calls[c].ent.ownerUuid = calls[c].user))
  /\ [][\A c \in Calls :
          (/\ calls[c].op = "deleteTask" /\ Steps(c) /\ calls[c].pc = "dt_load"
           /\ calls[c].taskId \in DOMAIN db.task
           /\ calls[c].role \notin ElevatedRoles
           /\ db.task[calls[c].taskId].owner_uuid # calls[c].user)
          => (/\ calls'[c].pc = "done" /\ calls'[c].result = "failure"
              /\ calls'[c].error[1] = "Forbidden" /\ calls'[c].emitted = {}
              /\ db' = db /\ events' = events)]_vars
  /\ [][(DOMAIN db.task \ DOMAIN db'.task # {}) =>
          \E c \in Calls :
            calls[c].op = "deleteTask" /\ calls[c].pc = "dt_delete" /\ Steps(c)]_vars

(* A holder of letter R was refused: the task and its rows are still there *)
C11_Witness ==
  \E c \in Calls :
    /\ calls[c].op = "deleteTask" /\ calls[c].pc = "done"
    /\ calls[c].error = <<"Forbidden", "needs to be owner, CP or RF">>
    /\ OnlyResponsibleOrAccountable(db, calls[c].taskId, calls[c].user)
    /\ ProfilesOf(db, calls[c].taskId) # {}
    /\ \A e \in events : e.type # "task:deleted"

(* Every dependent row of the store d has its parent row *)
NoOrphanRows(d) ==
  /\ \A s \in DOMAIN d.subtask : d.subtask[s].task_id \in DOMAIN d.task
  /\ \A r \in d.task_raci : r.task_id \in DOMAIN d.task
  /\ \A r \in d.subtask_raci : r.subtask_id \in DOMAIN d.subtask
  /\ \A r \in d.task_profile : r.task_id \in DOMAIN d.task

(* C12: after a successful deleteTask(T) the store holds no subtask of T,   *)
(* no task-level RACI row of T, no subtask-level RACI row of a former       *)
(* subtask of T and no profile association of T, and no row without its     *)
(* parent exists in any reachable state (in the store or in what an open    *)
(* transaction sees), createSubTask or updateTask on T running concurrently *)
(* included.                                                                *)
C12_DeleteLeavesNoOrphans ==
  /\ NoOrphanRows(db)
  /\ \A c \in Calls : NoOrphanRows(View(c))
  /\ \A c \in Calls :
       (calls[c].op = "deleteTask" /\ calls[c].result = "success") =>
         /\ RowsOfTask(db, calls[c].taskId) = <<FALSE, {}, {}>>
         /\ \A s \in DOMAIN db.subtask : db.subtask[s].task_id # calls[c].taskId

(* A task whose subtask had received copies of its RACI rows was deleted   *)
(* and nothing is left in the store                                        *)
C12_Witness ==
  \E c, o \in Calls :
    /\ calls[c].op = "deleteTask" /\ calls[c].result = "success"
    /\ calls[o].op = "createSubTask" /\ calls[o].result = "success"
    /\ calls[o].taskId = calls[c].taskId /\ calls[o].rows # {}
    /\ db = EmptyDb

(* C13: updateSubTaskStatus emits "subtask updated" for every successful    *)
(* toggle, and emits "task updated" for the parent if and only if the       *)
(* parent's stored progress changed as a result of that call.               *)
C13_TaskUpdatedIffProgressChanged ==
  \A c \in Calls :
    (calls[c].op = "updateSubTaskStatus" /\ calls[c].pc = "done"
       /\ calls[c].result = "success")
    => /\ "subtask:updated" \in calls[c].emitted
       /\ ("task:updated" \in calls[c].emitted) <=> calls[c].changed

(* C14: after a successful updateTask whose input supplies raci, the task's *)
(* RACI set is exactly the (user, letter) pairs of the input, every pair    *)
(* stored before and not in the input being gone; when the input supplies   *)
(* profilesImpacted, the task's profile associations are exactly the        *)
(* supplied codes.                                                          *)
InputPairs(input) ==
  UNION {{<<input.raci[l][j], l>> : j \in DOMAIN input.raci[l]} : l \in {"R", "A", "C", "I"}}
C14_UpdateReplacesSets ==
  [][\A c \in Calls :
       (/\ calls[c].op = "updateTask" /\ calls[c].pc = "ut_commit"
        /\ calls'[c].pc = "done" /\ calls'[c].result = "success")
       => /\ ("raci" \in calls[c].input.has)
               => (Pairs(TaskRaciOf(db', calls[c].taskId)) = InputPairs(calls[c].input))
          /\ ("profilesImpacted" \in calls[c].input.has)
               => (ProfilesOf(db', calls[c].taskId)
                     = Range(calls[c].input.profilesImpacted))]_vars

(* C15: createTask with an impacted-profile list containing a code that     *)
(* does not exist returns a failure naming the first unknown code in list   *)
(* order, without opening a transaction: no task, RACI or profile row is    *)
(* written and no event is emitted.                                         *)
UnknownCodes(input) ==
  {i \in DOMAIN input.profilesImpacted : input.profilesImpacted[i] \notin ProfileCatalog}
C15_UnknownProfileFailsFast ==
  /\ [](\A c \in Calls :
          (calls[c].op = "createTask" /\ UnknownCodes(calls[c].input) # {})
          => (/\ calls[c].pc = "done" /\ calls[c].result = "failure"
              /\ ~calls[c].inTx /\ calls[c].ops = <<>>
              /\ calls[c].newId = 0 /\ calls[c].emitted = {}
              /\ \E i \in UnknownCodes(calls[c].input) :
                    /\ \A j \in UnknownCodes(calls[c].input) : i <= j
                    /\ calls[c].error
                         = <<"Le profil n'existe pas", calls[c].input.profilesImpacted[i]>>))
  /\ [][\A c \in Calls :
          (calls'[c].op = "createTask" /\ calls[c].op # "createTask"
             /\ UnknownCodes(calls'[c].input) # {})
          => (db' = db /\ events' = events /\ nextTask' = nextTask)]_vars
(* A list with a known code, then two unknown ones: the first is named *)
C15_Witness ==
  \E c \in Calls :
    /\ calls[c].op = "createTask" /\ calls[c].pc = "done"
    /\ Cardinality(UnknownCodes(calls[c].input)) = 2
    /\ 1 \notin UnknownCodes(calls[c].input)
    /\ calls[c].error = <<"Le profil n'existe pas", "ZZZ">>

(* C16: if a supplied field of an updateTask input fails the entity's       *)
(* validation (empty title, priority outside 1..5, invalid phase code,      *)
(* invalid owner id, plannedStart later than plannedEnd), updateTask        *)
(* returns a failure and the stored task row, RACI set and profile          *)
(* associations are unchanged, even when other fields of the input were     *)
(* valid and validated earlier; no event is emitted.                        *)
InputInvalid(input) ==
  \/ "title" \in input.has /\ input.title \in {"", " "}
  \/ "priority" \in input.has /\ input.priority \notin 1..5
  \/ "phaseCode" \in input.has /\ input.phaseCode \notin {"M", "E", "D", "A", "C", "A2", "P"}
  \/ "ownerUuid" \in input.has /\ input.ownerUuid \notin Users \cup {NULL}
  \/ /\ {"plannedStart", "plannedEnd"} \subseteq input.has
     /\ input.plannedStart # NoDate /\ input.plannedEnd # NoDate
     /\ input.plannedStart > input.plannedEnd
C16_InvalidFieldRejectsUpdate ==
  /\ [](\A c \in Calls :
          (calls[c].op = "updateTask" /\ InputInvalid(calls[c].input))
          => (/\ ~calls[c].inTx /\ calls[c].ops = <<>> /\ calls[c].emitted = {}
              /\ calls[c].pc = "done" => calls[c].result = "failure"))
  /\ [][\A c \in Calls :
          (calls[c].op = "updateTask" /\ InputInvalid(calls[c].input) /\ Steps(c))
          => (db' = db /\ events' = events)]_vars
(* The owner's update was refused by a setter after an earlier field of the *)
(* same input had been accepted; the stored row keeps its values            *)
C16_Witness ==
  \E c \in Calls :
    /\ calls[c].op = "updateTask" /\ calls[c].pc = "done"
    /\ calls[c].result = "failure"
    /\ calls[c].error = <<"Invalid priority value", "">>
    /\ "title" \in calls[c].input.has /\ ~TitleIsBlank(calls[c].input.title)
    /\ TaskExists(db, calls[c].taskId)
    /\ db.task[calls[c].taskId].title = "a" /\ db.task[calls[c].taskId].priority = 3

(* C17: in every reachable state every task-profile association references  *)
(* a code of the profile catalog: neither createTask nor updateTask leaves  *)
(* an association to a non-existent code, and a call naming one fails       *)
(* without persisting any of its changes.                                   *)
NamesUnknownCode(input) ==
  "profilesImpacted" \in input.has
    /\ \E i \in DOMAIN input.profilesImpacted : input.profilesImpacted[i] \notin ProfileCatalog
C17_ProfilesReferenceCatalog ==
  /\ [](\A r \in db.task_profile : r.profile_code \in ProfileCatalog)
  /\ [](\A c \in Calls :
          (calls[c].op \in {"createTask", "updateTask"} /\ calls[c].pc = "done"
             /\ NamesUnknownCode(calls[c].input))
          => calls[c].result = "failure")
  /\ [][\A c \in Calls :
          (calls[c].op \in {"createTask", "updateTask"} /\ Steps(c)
             /\ NamesUnknownCode(calls[c].input))
          => db' = db]_vars
(* An updateTask naming a catalog code and an unknown one was rolled back:  *)
(* the task keeps its title and its earlier association                     *)
C17_Witness ==
  \E c \in Calls :
    /\ calls[c].op = "updateTask" /\ calls[c].pc = "done"
    /\ NamesUnknownCode(calls[c].input)
    /\ calls[c].error = <<"insert task_profile", "">>
    /\ TaskExists(db, calls[c].taskId)
    /\ db.task[calls[c].taskId].title # calls[c].input.title
    /\ ProfilesOf(db, calls[c].taskId) = {"TEC"}

(* C18: every Task that exists, freshly created by Task.create or after any *)
(* sequence of successful and rejected update* calls, has a priority that   *)
(* is an integer in 1..5, a progress in 0..100, a title that is non-empty   *)
(* after trimming, a phase code among M, E, D, A, C, A2, P and, when both   *)
(* planned dates are set, plannedStart <= plannedEnd.                       *)
TaskInvariant(e) ==
  /\ e.priority \in 1..5
  /\ e.progress # NaN /\ e.progress >= 0 /\ e.progress <= 10000
  /\ e.title \notin {"", " "}
  /\ e.phaseCode \in {"M", "E", "D", "A", "C", "A2", "P"}
  /\ (e.plannedStart # NoDate /\ e.plannedEnd # NoDate)
       => (e.plannedStart # NaN /\ e.plannedEnd # NaN /\ e.plannedStart <= e.plannedEnd)
C18_TaskInvariants ==
  \A c \in Calls :
    (calls[c].op = "Task" /\ calls[c].pc = "entity") => TaskInvariant(calls[c].ent)

(* C19: createSubTask and updateSubTaskStatus are authorised by             *)
(* canModifyTask evaluated on the parent task only: a caller for whom it is *)
(* false gets a forbidden failure, no subtask row or subtask RACI row is    *)
(* inserted, no completion flag or progress changes and no event is         *)
(* emitted, even if that caller created the subtask or holds R or A in the  *)
(* subtask's own RACI set.                                                  *)
SubTaskOps == {"createSubTask", "updateSubTaskStatus"}
HoldsRAOnTask(d, t, u) ==
  \E r \in d.task_raci : r.task_id = t /\ r.user_uuid = u /\ r.letter \in {"R", "A"}
HoldsRAOnSubTask(d, s, u) ==
  \E r \in d.subtask_raci : r.subtask_id = s /\ r.user_uuid = u /\ r.letter \in {"R", "A"}
C19_SubTaskAuthOnParentOnly ==
  /\ [][\A c \in Calls :
          (calls[c].op \in SubTaskOps /\ calls[c].pc = "can_raci" /\ Steps(c))
          => IF HoldsRAOnTask(db, calls[c].taskId, calls[c].user)
             THEN calls'[c].error[1] # "Forbidden"
             ELSE /\ calls'[c].pc = "done" /\ calls'[c].result = "failure"
                  /\ calls'[c].error[1] = "Forbidden"]_vars
  /\ [](\A c \in Calls :
          (calls[c].op \in SubTaskOps /\ calls[c].pc \in {"can_task", "can_raci"})
          => (calls[c].ops = <<>> /\ ~calls[c].inTx /\ calls[c].emitted = {}))
  /\ [][\A c \in Calls :
          (calls[c].op \in SubTaskOps /\ Steps(c)
             /\ (calls[c].pc \in {"can_task", "can_raci"} \/ calls'[c].error[1] = "Forbidden"))
          => (db' = db /\ events' = events)]_vars
(* u2 created the subtask and is Responsible in the subtask's own RACI set, *)
(* but is only Consulted on the parent: the toggle is refused               *)
C19_Witness ==
  \E c \in Calls :
    /\ calls[c].op = "updateSubTaskStatus" /\ calls[c].pc = "done"
    /\ calls[c].error[1] = "Forbidden" /\ calls[c].emitted = {}
    /\ SubTaskExists(db, calls[c].subId)
    /\ db.subtask[calls[c].subId].created_by = calls[c].user
    /\ HoldsRAOnSubTask(db, calls[c].subId, calls[c].user)
    /\ ~HoldsRAOnTask(db, calls[c].taskId, calls[c].user)
    /\ db.subtask[calls[c].subId].completed # calls[c].input.done
    /\ db.task[calls[c].taskId].progress = 0

(* C20: in every reachable state every stored subtask references an         *)
(* existing task, including when createSubTask(T) runs concurrently with    *)
(* deleteTask(T): if the parent is deleted between createSubTask's          *)
(* existence and permission check and its insert, createSubTask fails and   *)
(* leaves neither a subtask row nor subtask RACI rows, and emits no event.  *)
SubTasksHaveParent(d) ==
  /\ \A s \in DOMAIN d.subtask : d.subtask[s].task_id \in DOMAIN d.task
  /\ \A r \in d.subtask_raci :
       r.subtask_id \in DOMAIN d.subtask
         /\ d.subtask[r.subtask_id].task_id \in DOMAIN d.task
C20_SubTaskParentExists ==
  /\ [](SubTasksHaveParent(db) /\ \A c \in Calls : SubTasksHaveParent(View(c)))
  /\ [][\A c \in Calls :
          (calls[c].op = "createSubTask" /\ calls[c].pc = "cs_insert" /\ Steps(c)
             /\ calls[c].taskId \notin DOMAIN db.task)
          => (/\ calls'[c].pc = "done" /\ calls'[c].result = "failure"
              /\ calls'[c].ops = <<>> /\ calls'[c].emitted = {}
              /\ db' = db /\ events' = events /\ nextSub' = nextSub)]_vars
(* The owner's deleteTask removed the parent after createSubTask had passed *)
(* its checks: the insert was refused and the store holds no subtask        *)
C20_Witness ==
  \E c, o \in Calls :
    /\ calls[c].op = "createSubTask" /\ calls[c].pc = "done"
    /\ calls[c].error = <<"foreign key subtask", "">> /\ calls[c].emitted = {}
    /\ calls[o].op = "deleteTask" /\ calls[o].result = "success"
    /\ calls[o].taskId = calls[c].taskId
    /\ ~TaskExists(db, calls[c].taskId)
    /\ db.subtask_raci = {}
    /\ \A s \in DOMAIN db.subtask : db.subtask[s].task_id # calls[c].taskId

(* C21: no use-case method swallows a lower-layer failure: whenever a       *)
(* repository call made by updateSubTaskStatus or getTaskWithDetails (RACI  *)
(* lookup, subtask lookup, profile lookup, parent-task reload) returns a    *)
(* failure, the use case returns a failure, not a success built from        *)
(* substituted empty data.                                                  *)
C21_NoSwallowedFailure ==
  \A c \in Calls :
    (calls[c].op \in {"updateSubTaskStatus", "getTaskWithDetails"}
       /\ calls[c].pc = "done" /\ calls[c].swallowed # {})
    => calls[c].result = "failure"

LockOps == {"lockTaskForEditing", "unlockTaskAfterEditing"}

(* C22: the soft lock is a stub: lockTaskForEditing and                     *)
(* unlockTaskAfterEditing change no stored state and only emit a locked /   *)
(* unlocked presence event; isTaskLocked answers locked = false for every   *)
(* task and user whatever was locked before, canModifyTask never fails with *)
(* a conflict, and a user holding R or A is never stopped by another user's *)
(* lock.                                                                    *)
C22_LockIsStub ==
  /\ [](\A t \in TaskIds, u \in Users : ~isTaskLocked(t, u).locked)
  /\ [](\A c \in Calls : calls[c].error[1] # "Conflict")
  /\ [][\A c \in Calls :
         (calls[c].pc = "idle" /\ calls'[c].op \in LockOps)
         => /\ db' = db
            /\ calls'[c].result = "success"
            /\ events' \ events \subseteq
                 {[type |-> ty, id |-> calls'[c].taskId] :
                    ty \in {"task:locked", "task:unlocked"}}]_vars
  /\ [][\A c \in Calls :
         (calls[c].pc = "can_raci" /\ calls'[c].pc # "can_raci"
            /\ HasModifyLetter(TaskRaciOf(db, calls[c].taskId), calls[c].user))
         => calls'[c].result # "failure"]_vars

(* u1's lock on the task is in place (locked event out, no unlock) and u2,  *)
(* Responsible on it, has renamed it                                        *)
C22_Witness ==
  \E c, k \in Calls, t \in TaskIds :
    /\ calls[c].op = "lockTaskForEditing" /\ calls[c].user = "u1" /\ calls[c].taskId = t
    /\ [type |-> "task:unlocked", id |-> t] \notin events
    /\ calls[k].op = "updateTask" /\ calls[k].user = "u2" /\ calls[k].taskId = t
    /\ calls[k].pc = "done" /\ calls[k].result = "success"
    /\ TaskExists(db, t) /\ db.task[t].title = "b" /\ db.task[t].owner_uuid # "u2"

(* C23: a successful createTask stores a task with progress 0 and its       *)
(* response reports progress 0, a RACI map whose lists are exactly the      *)
(* users the input supplied per letter, no subtask, and profilesImpacted    *)
(* equal to the profile associations stored for the new task.               *)
C23_CreateTaskResponse ==
  [][\A c \in Calls :
       (calls[c].op = "createTask" /\ calls[c].pc = "ct_commit"
          /\ calls'[c].pc = "done" /\ calls'[c].result = "success")
       => LET t == calls[c].newId
              r == calls[c].response
          IN /\ TaskExists(db', t) /\ db'.task[t].progress = 0
             /\ r.progress = 0
             /\ r.raci = [l \in {"R", "A", "C", "I"} |-> Range(calls[c].input.raci[l])]
             /\ r.subtasks = {}
             /\ r.profilesImpacted = ProfilesOf(db', t)]_vars

(* C24: a rejected entity mutation leaves the entity untouched: when a      *)
(* setter of Task (updateTitle, updatePriority, updatePhase, updateOwner,   *)
(* updateProgress, updatePlannedDates), SubTask.updateTitle or              *)
(* Raci.updateLetter returns a failure, every field of the entity,          *)
(* updatedAt included, has the value it had before the call.                *)
C24_RejectedSetterTouchesNothing ==
  [][\A c \in Calls :
       (calls[c].pc = "entity" /\ calls'[c].pc = "entity"
          /\ calls'[c].result = "failure")
       => calls'[c].ent = calls[c].ent]_vars

(* A setter was refused on an entity built before the clock moved *)
RejectedOn(op, error) ==
  /\ calls[1].op = op /\ calls[1].pc = "entity" /\ calls[1].result = "failure"
  /\ calls[1].error[1] = error
  /\ now > 0
C24_Witness ==
  \/ RejectedOn("Task", "Task title is required") /\ calls[1].ent.updatedAt < now
  \/ RejectedOn("SubTask", "SubTask title is required")
  \/ RejectedOn("Raci", "Invalid RACI letter")

(* The column each field of an UpdateTaskInput is stored in *)
InputColumns ==
  [title |-> "title", description |-> "description", priority |-> "priority",
   phaseCode |-> "phase_code", ownerUuid |-> "owner_uuid",
   plannedStart |-> "planned_start", plannedEnd |-> "planned_end"]
NamedColumns(input) == {InputColumns[f] : f \in input.has \cap DOMAIN InputColumns}

(* C25: updateTask changes only what its input supplies: without raci the   *)
(* task's RACI set is unchanged, without profilesImpacted the profile       *)
(* associations are unchanged, each task column not named in the input      *)
(* keeps its stored value (plannedEnd when only plannedStart is supplied,   *)
(* and vice versa), and the subtasks and their RACI sets are not changed.   *)
C25_UpdateChangesOnlySupplied ==
  [][\A c \in Calls :
       (calls[c].op = "updateTask" /\ calls[c].inTx /\ calls'[c].pc = "done"
          /\ calls'[c].result = "success" /\ TaskExists(db, calls[c].taskId))
       => LET t == calls[c].taskId
              input == calls[c].input
          IN /\ "raci" \notin input.has => TaskRaciOf(db', t) = TaskRaciOf(db, t)
             /\ "profilesImpacted" \notin input.has
                  => ProfilesOf(db', t) = ProfilesOf(db, t)
             /\ \A f \in DOMAIN db.task[t] \ NamedColumns(input) :
                  db'.task[t][f] = db.task[t][f]
             /\ db'.subtask = db.subtask
             /\ db'.subtask_raci = db.subtask_raci]_vars

(* C26: a user who is not CP/RF and not the task's owner cannot, by any     *)
(* sequence of their own updateTask, createSubTask, updateSubTaskStatus and *)
(* deleteTask calls, cause the task's phase to change or the task to be     *)
(* deleted, not even by first naming themselves owner.  (Every call that    *)
(* follows the creation is made by such a user.)                            *)
C26_NoPhaseChangeOrDeleteByOutsider ==
  [][\A t \in TaskIds :
       TaskExists(db, t)
       => /\ TaskExists(db', t)
          /\ db'.task[t].phase_code = db.task[t].phase_code]_vars

(* C27: no lost update between concurrent task edits: when two updateTask   *)
(* calls on the same task, one changing only the title and the other only   *)
(* the priority, have both returned success, the stored row carries both    *)
(* modifications.                                                           *)
C27_NoLostUpdate ==
  \A c, k \in Calls :
    (/\ calls[c].op = "updateTask" /\ calls[k].op = "updateTask"
     /\ calls[c].pc = "done" /\ calls[k].pc = "done"
     /\ calls[c].result = "success" /\ calls[k].result = "success"
     /\ calls[c].taskId = calls[k].taskId
     /\ calls[c].input.has = {"title"} /\ calls[k].input.has = {"priority"}
     /\ TaskExists(db, calls[c].taskId))
    => /\ db.task[calls[c].taskId].title = calls[c].input.title
       /\ db.task[calls[c].taskId].priority = calls[k].input.priority

LetterPairs(rows) == {<<r.letter, r.user_uuid>> : r \in rows}
OldPairs == {<<"R", "u2">>, <<"I", "u1">>}
NewPairs == {<<"A", "u2">>, <<"C", "u1">>}

C29_RowsAttachedToOwnInsert ==
  [][\A c \in Calls :
       (calls[c].op \in {"createTask", "createSubTask"} /\ calls[c].inTx
          /\ calls'[c].pc = "done" /\ calls'[c].result = "success")
       => \A i \in DOMAIN calls[c].ops :
            LET o == calls[c].ops[i]
            IN /\ o.k \in {"ins_task_raci", "ins_task_profile"}
                    => \A r \in o.rows : r.task_id = calls[c].newId
               /\ o.k = "ins_subtask_raci"
                    => \A r \in o.rows : r.subtask_id = calls[c].newId]_vars

(* C30: after a successful copyFromTaskToSubTask(task, subtask) the         *)
(* subtask's RACI set equals the task's RACI set, whatever the subtask's    *)
(* set was before, also when the task's set is empty (the subtask's set is  *)
(* then empty); a second call changes nothing more.  Stated for a call      *)
(* that runs while no other call is in progress.                            *)
C30_CopyMakesSetsEqual ==
  [][\A c \in Calls :
       (calls[c].op = "copyFromTaskToSubTask" /\ calls[c].inTx
          /\ calls'[c].pc = "done" /\ calls'[c].result = "success"
          /\ SubTaskExists(db, calls[c].subId)
          /\ \A o \in Calls \ {c} : calls[o].pc \in {"idle", "done"})
       => LetterPairs(SubRaciOf(db', calls[c].subId))
            = LetterPairs(TaskRaciOf(db', calls[c].taskId))]_vars
====
